---- MODULE Spec2Model ----
(***************************************************************************)
(* MemeBattle backend: the per-room game coordinator.                      *)
(*                                                                         *)
(* The persistent store (rooms, room_participants, games, game_rounds,     *)
(* player_choices, votes, users.rating) is one shared state; a statement   *)
(* of a handler takes effect when it is executed.  Handlers are coroutines *)
(* that may be suspended at every await: the handlers whose check and      *)
(* write are separated by awaits (submit_card_choice, submit_vote,         *)
(* start_game) are modelled in two steps with the request in flight in     *)
(* between; the deadline timers and the next-round trigger are tasks that  *)
(* sleep and then run.  A request that raises leaves nothing behind: its   *)
(* transaction is discarded.  The WebSocket side is the ConnectionManager  *)
(* registry and one handler per accepted socket.                           *)
(***************************************************************************)
EXTENDS Integers, Sequences, FiniteSets, Bags, TLC

VARIABLES
    rooms,          \* rooms table: room id -> record (status "none": no such row)
    participants,   \* room_participants table, in insertion order
    games,          \* games table, in insertion order (index = id)
    rounds,         \* game_rounds table plus the tasks spawned for each round
    choices,        \* player_choices table, in insertion order (index = id)
    votes,          \* votes table, in insertion order
    rating,         \* users.rating
    inflight,       \* requests suspended between their checks and their write
    sockets,            \* the WebSocket connections accepted so far, oldest first
    active_connections, \* ConnectionManager.active_connections: user -> socket
    room_users,         \* ConnectionManager.room_users: room -> set of users
    user_room,          \* ConnectionManager.user_room: user -> room
    redis_event_handlers, \* ConnectionManager.redis_event_handlers: the rooms
                          \* whose bus channel this instance listens to
    game_state_cache      \* the keys game_state:{game_id} of the cache

\* the state of the ConnectionManager and of the socket handlers, and the
\* cache, which a service built without the bus client never touches
wsvars == <<sockets, active_connections, room_users, user_room,
           redis_event_handlers, game_state_cache>>

vars == <<rooms, participants, games, rounds, choices, votes, rating, inflight,
          sockets, active_connections, room_users, user_room,
          redis_event_handlers, game_state_cache>>

----------------------------------------------------------------------------
(* Bounds of the model *)

NumUsers == 3
MaxRooms == 2
MaxParticipants == 4
MaxGames == 2
MaxRounds == 1
MaxChoices == 3
MaxVotes == 3
MaxInflight == 2
MaxFinalise == 2
MaxRating == 6
MaxDisconnects == 3
MaxRoundsLong == 8
MaxErrors == 1
MaxSockets == 2

Users == 1..NumUsers
Rooms == 1..MaxRooms

----------------------------------------------------------------------------
(* Program constants *)

MIN_PLAYERS == 3
MIN_CHOICES == 3
TOTAL_ROUNDS == 7
MAX_DISCONNECT_COUNT == 3
MAX_MISSED_ACTIONS == 2
ROUND_POINTS == 1
VICTORY_POINTS == 5
FIRST_ROUND == 1
CARD_SELECTION_TIMEOUT == 300
VOTING_TIMEOUT == 180

None == 0

\* the value of a key of the cache that is not set
NoState == [status |-> "none", current_round |-> 0]

----------------------------------------------------------------------------
(* Queries *)

Max(S) == CHOOSE x \in S : \A y \in S : x >= y

RoomExists(r) == rooms[r].status # "none"

\* rows of room_participants of a room and user, whatever their status
ParticipantRows(r, u) ==
    {i \in DOMAIN participants : participants[i].room = r /\ participants[i].user = u}

\* rows with status ACTIVE of a room
ActiveRows(r) ==
    {i \in DOMAIN participants :
        participants[i].room = r /\ participants[i].status = "active"}

ActiveRowsOf(r, u) == {i \in ActiveRows(r) : participants[i].user = u}

_get_active_players_count(r) == Cardinality(ActiveRows(r))

----------------------------------------------------------------------------
(* Room lifecycle *)

NewParticipant(r, u) ==
    [room |-> r, user |-> u, status |-> "active", conn |-> "connected",
     disc |-> 0, missed |-> 0]

\* create_room: the creator owns no waiting or playing room; the room and the
\* creator's participant row are inserted.
CreateRoom(u, mp) ==
    /\ ~ \E r \in Rooms : rooms[r].creator = u /\ rooms[r].status \in {"waiting", "playing"}
    /\ \E r \in Rooms :
        /\ ~ RoomExists(r)
        /\ \A q \in Rooms : q < r => RoomExists(q)
        /\ Len(participants) < MaxParticipants
        /\ rooms' = [rooms EXCEPT ![r] =
                        [status |-> "waiting", creator |-> u, max_players |-> mp]]
        /\ participants' = Append(participants, NewParticipant(r, u))
    /\ UNCHANGED <<games, rounds, choices, votes, rating, inflight>>
    /\ UNCHANGED wsvars

\* join_room / join_room_by_code followed by _join_room_internal
JoinRoom(u, r) ==
    /\ RoomExists(r)
    /\ rooms[r].status = "waiting"
    /\ ActiveRowsOf(r, u) = {}
    /\ _get_active_players_count(r) < rooms[r].max_players
    /\ Len(participants) < MaxParticipants
    /\ participants' = Append(participants, NewParticipant(r, u))
    /\ UNCHANGED <<rooms, games, rounds, choices, votes, rating, inflight>>
    /\ UNCHANGED wsvars

\* leave_room cancelling the creator's room whatever its status
LeaveRoomCancelAlways(u, r) ==
    /\ RoomExists(r)
    /\ \E i \in ActiveRowsOf(r, u) :
        participants' = [participants EXCEPT ![i].status = "left"]
    /\ rooms' = IF rooms[r].creator = u
                THEN [rooms EXCEPT ![r].status = "cancelled"]
                ELSE rooms
    /\ UNCHANGED <<games, rounds, choices, votes, rating, inflight>>
    /\ UNCHANGED wsvars

\* leave_room: the participant row becomes left; a waiting room whose creator
\* leaves is cancelled.
LeaveRoom(u, r) ==
    /\ RoomExists(r)
    /\ \E i \in ActiveRowsOf(r, u) :
        participants' = [participants EXCEPT ![i].status = "left"]
    /\ rooms' = IF rooms[r].creator = u /\ rooms[r].status = "waiting"
                THEN [rooms EXCEPT ![r].status = "cancelled"]
                ELSE rooms
    /\ UNCHANGED <<games, rounds, choices, votes, rating, inflight>>
    /\ UNCHANGED wsvars

----------------------------------------------------------------------------
(* Game: start_game and end_game *)

Request(op, u, target, arg) == [op |-> op, user |-> u, target |-> target, arg |-> arg]

InFlight(req) == BagIn(req, inflight)

NewGame(r) ==
    [room |-> r, status |-> "starting", current_round |-> FIRST_ROUND, winner |-> None]

\* the checks of start_game: creator, room waiting, at least 3 active players
CanStartGame(u, r) ==
    /\ RoomExists(r)
    /\ rooms[r].creator = u
    /\ rooms[r].status = "waiting"
    /\ _get_active_players_count(r) >= MIN_PLAYERS

\* the writes of start_game: the room is playing, a game in starting is inserted
start_game_write(r) ==
    /\ rooms' = [rooms EXCEPT ![r].status = "playing"]
    /\ games' = Append(games, NewGame(r))

\* start_game, run without another request in between
StartGame(u, r) ==
    /\ CanStartGame(u, r)
    /\ Len(games) < MaxGames
    /\ start_game_write(r)
    /\ UNCHANGED <<participants, rounds, choices, votes, rating, inflight>>
    /\ UNCHANGED wsvars

\* start_game up to the flush: the room row was read and the players counted
StartGameCheck(u, r) ==
    /\ CanStartGame(u, r)
    /\ BagCardinality(inflight) < MaxInflight
    /\ Len(games) + BagCardinality(inflight) < MaxGames
    /\ inflight' = inflight (+) SetToBag({Request("start_game", u, r, None)})
    /\ UNCHANGED <<rooms, participants, games, rounds, choices, votes, rating>>
    /\ UNCHANGED wsvars

\* start_game from the assignment of room.status to the flush
StartGameCreate(u, r) ==
    /\ InFlight(Request("start_game", u, r, None))
    /\ inflight' = inflight (-) SetToBag({Request("start_game", u, r, None)})
    /\ start_game_write(r)
    /\ UNCHANGED <<participants, rounds, choices, votes, rating>>
    /\ UNCHANGED wsvars

\* get_game_by_room: the non-finished games of a room (the query returns the
\* most recently created one)
NonFinishedGames(r) ==
    {g \in DOMAIN games : games[g].room = r /\ games[g].status # "finished"}

RoundsOf(g) == {rid \in DOMAIN rounds : rounds[rid].game = g}

VoteCount(c) == Cardinality({v \in DOMAIN votes : votes[v].choice = c})

\* end_game's statistics query: the users with a choice in the game
Leaderboard(g) == {choices[c].user : c \in {d \in DOMAIN choices : choices[d].round \in RoundsOf(g)}}

\* the label round_wins of that query: the votes received by the user's choices
round_wins(g, u) ==
    Cardinality({v \in DOMAIN votes :
        /\ choices[votes[v].choice].user = u
        /\ choices[votes[v].choice].round \in RoundsOf(g)})

\* the first row of the query ordered by round_wins descending; the order of
\* rows with equal counts is the database's
FirstPlaces(g) ==
    IF Leaderboard(g) = {} THEN {None}
    ELSE {u \in Leaderboard(g) : \A o \in Leaderboard(g) : round_wins(g, u) >= round_wins(g, o)}

\* end_game: the game and its room are finished, the winner is recorded, and a
\* winner with at least one vote gets the victory points
end_game(g) ==
    \E w \in FirstPlaces(g) :
        /\ games' = [games EXCEPT ![g].status = "finished", ![g].winner = w]
        /\ rooms' = [rooms EXCEPT ![games[g].room].status = "finished"]
        /\ IF w # None /\ round_wins(g, w) > 0
           THEN /\ rating[w] + VICTORY_POINTS <= MaxRating
                /\ rating' = [rating EXCEPT ![w] = @ + VICTORY_POINTS]
           ELSE rating' = rating

\* POST /games/{game_id}/end
EndGame(g) ==
    /\ g \in DOMAIN games
    /\ end_game(g)
    /\ UNCHANGED <<participants, rounds, choices, votes, inflight>>
    /\ UNCHANGED wsvars

----------------------------------------------------------------------------
(* Rounds *)

\* start_round's duration of the selection, from the game's current_round
\* before it is incremented
selection_duration(current_round) ==
    IF current_round <= 5
    THEN CARD_SELECTION_TIMEOUT - (current_round - 1) * 5
    ELSE 30

\* A row of game_rounds, created by start_round with round_number n =
\* current_round + 1, with the tasks that belong to the round:
\*   selTimer     the task _handle_selection_timeout created by start_round:
\*                "sleeping" until selection_deadline, then "returned" (it found
\*                the game out of card_selection) or "done" (it ran to its end)
\*   voteTimers   the tasks _handle_voting_timeout still sleeping
\*   votePassed   now > voting_deadline
\*   calcPending  the tasks _calculate_results_async created and not yet run
\*   nextPending  the calls of _schedule_next_round sleeping RESULTS_DISPLAY_TIME
\*   awards, triggers   how often the round's +1 was granted and how often
\*                _schedule_next_round was entered for the round
\*   duration_seconds, selection_deadline, voting_deadline   the time for the
\*                selection and the two deadlines, in seconds after started_at
NewRound(g, n) ==
    [game |-> g, number |-> n, selTimer |-> "sleeping", voteTimers |-> 0,
     votePassed |-> FALSE, finished |-> FALSE, auto_advanced |-> FALSE,
     calcPending |-> 0, nextPending |-> 0, awards |-> 0, triggers |-> 0,
     duration_seconds |-> selection_duration(n - 1),
     selection_deadline |-> selection_duration(n - 1),
     voting_deadline |-> selection_duration(n - 1) + VOTING_TIMEOUT]

\* now > selection_deadline: the selection timer of the round is due ("due",
\* its sleep is over and the task has not run yet) or has run; a task that a
\* restart of the process has destroyed is "lost" before the deadline and
\* "lost_due" after it
SelectionDeadlinePassed(rid) == rounds[rid].selTimer \notin {"sleeping", "lost"}

ChoicesOfRound(rid) == {c \in DOMAIN choices : choices[c].round = rid}

VotesOfRound(rid) == {v \in DOMAIN votes : votes[v].round = rid}

\* cleanup_inactive_players: every row of the room that belongs to a user with a
\* row over a limit becomes left
cleanup_inactive_players(r) ==
    LET excluded_users ==
            {participants[i].user : i \in {j \in DOMAIN participants :
                /\ participants[j].room = r
                /\ \/ participants[j].disc >= MAX_DISCONNECT_COUNT
                   \/ participants[j].missed >= MAX_MISSED_ACTIONS}}
    IN  [i \in DOMAIN participants |->
            IF participants[i].room = r /\ participants[i].user \in excluded_users
            THEN [participants[i] EXCEPT !.status = "left"]
            ELSE participants[i]]

\* the rows of room r that get_active_players returns after
\* cleanup_inactive_players
ActiveAfterCleanup(r) ==
    {i \in DOMAIN participants :
        /\ participants[i].room = r
        /\ cleanup_inactive_players(r)[i].status = "active"}

\* start_round's count of the players: at least 3 are left after the cleanup
HasPlayersForRound(g) ==
    Cardinality(ActiveAfterCleanup(games[g].room)) >= MIN_PLAYERS

\* start_round after its status check, on the rounds table `rs`: cleanup, then
\* either end_game (fewer than 3 active players) or a new round with number
\* current_round + 1; `cap` bounds the rows of game_rounds
start_round(g, rs, cap) ==
    LET r     == games[g].room
        parts == cleanup_inactive_players(r)
        left  == {i \in DOMAIN parts : parts[i].room = r /\ parts[i].status = "active"}
    IN  /\ participants' = parts
        /\ IF Cardinality(left) < MIN_PLAYERS
           THEN /\ end_game(g)
                /\ rounds' = rs
           ELSE /\ Len(rs) < cap
                /\ rounds' = Append(rs, NewRound(g, games[g].current_round + 1))
                /\ games' = [games EXCEPT ![g].status = "card_selection",
                                          ![g].current_round = @ + 1]
                /\ UNCHANGED <<rooms, rating>>

CanStartRound(g) == games[g].status \in {"starting", "round_results"}

\* POST /games/{game_id}/rounds and the start_round action of the socket, when
\* start_round returns the new round; with too few players start_round returns
\* the result of end_game, which the handler cannot answer with (see
\* StartRoundFailed)
StartRound(g) ==
    /\ g \in DOMAIN games
    /\ CanStartRound(g)
    /\ HasPlayersForRound(g)
    /\ start_round(g, rounds, MaxRounds)
    /\ UNCHANGED <<choices, votes, inflight>>
    /\ UNCHANGED wsvars

\* start_round for a game that is played to its last round
StartRoundLong(g) ==
    /\ g \in DOMAIN games
    /\ CanStartRound(g)
    /\ HasPlayersForRound(g)
    /\ start_round(g, rounds, MaxRoundsLong)
    /\ UNCHANGED <<choices, votes, inflight>>
    /\ UNCHANGED wsvars

\* start_voting after its checks: the game is voting and a voting timer sleeps
start_voting_round(rec) == [rec EXCEPT !.voteTimers = @ + 1]

CanStartVoting(rid) ==
    /\ games[rounds[rid].game].status = "card_selection"
    /\ Cardinality(ChoicesOfRound(rid)) >= MIN_CHOICES

\* POST /games/rounds/{round_id}/voting/start
StartVoting(rid) ==
    /\ rid \in DOMAIN rounds
    /\ CanStartVoting(rid)
    /\ rounds[rid].voteTimers < MaxFinalise
    /\ games' = [games EXCEPT ![rounds[rid].game].status = "voting"]
    /\ rounds' = [rounds EXCEPT ![rid] = start_voting_round(@)]
    /\ UNCHANGED <<rooms, participants, choices, votes, rating, inflight>>
    /\ UNCHANGED wsvars

----------------------------------------------------------------------------
(* Player actions *)

\* user_cards: the starter card every user owns; card 2 is owned by nobody
Cards == {1, 2}

UserHasCard(u, card) == card = 1

\* update_player_activity: every row of the user in the room is connected again
update_player_activity(u, r) ==
    [i \in DOMAIN participants |->
        IF participants[i].room = r /\ participants[i].user = u
        THEN [participants[i] EXCEPT !.conn = "connected"]
        ELSE participants[i]]

\* _validate_player_in_game
IsActivePlayer(r, u) == ActiveRowsOf(r, u) # {}

RequestsInFlight(op) ==
    LET S == {req \in BagToSet(inflight) : req.op = op}
    IN  IF S = {} THEN 0 ELSE BagCardinality([req \in S |-> inflight[req]])

\* the bus client of a GameService: the routers and the WebSocket handler
\* construct GameService(db) and RoomService(db) without one
redis_client == None

\* `if self.redis_client: await self.redis_client.publish_game_event(...)`: the
\* events an action puts on the channel of the room
publish_game_event(r, event_type) ==
    IF redis_client = None THEN EmptyBag
    ELSE SetToBag({Request("event", None, r, event_type)})

\* submit_card_choice's checks with the comparison of the clock and
\* selection_deadline left out
CanSubmitChoiceNoDeadline(u, rid, card) ==
    /\ games[rounds[rid].game].status = "card_selection"
    /\ IsActivePlayer(games[rounds[rid].game].room, u)
    /\ ~ \E c \in ChoicesOfRound(rid) : choices[c].user = u
    /\ UserHasCard(u, card)

\* the checks of submit_card_choice, in the order of the code
CanSubmitChoice(u, rid, card) ==
    /\ games[rounds[rid].game].status = "card_selection"
    /\ ~ SelectionDeadlinePassed(rid)
    /\ IsActivePlayer(games[rounds[rid].game].room, u)
    /\ ~ \E c \in ChoicesOfRound(rid) : choices[c].user = u
    /\ UserHasCard(u, card)

\* submit_card_choice up to the insert: all checks passed, activity updated
SubmitChoiceCheck(u, rid, card) ==
    /\ rid \in DOMAIN rounds
    /\ CanSubmitChoice(u, rid, card)
    /\ BagCardinality(inflight) < MaxInflight
    /\ Len(choices) + RequestsInFlight("choice") < MaxChoices
    /\ participants' = update_player_activity(u, games[rounds[rid].game].room)
    /\ inflight' = inflight (+) SetToBag({Request("choice", u, rid, card)})
    /\ UNCHANGED <<rooms, games, rounds, choices, votes, rating>>
    /\ UNCHANGED wsvars

\* submit_card_choice from the insert on; voting is not started from here
SubmitChoiceInsert(u, rid, card) ==
    /\ InFlight(Request("choice", u, rid, card))
    /\ inflight' = (inflight (-) SetToBag({Request("choice", u, rid, card)}))
           (+) publish_game_event(games[rounds[rid].game].room, "player_choice_submitted")
    /\ choices' = Append(choices, [round |-> rid, user |-> u, card |-> card])
    /\ UNCHANGED <<rooms, participants, games, rounds, votes, rating>>
    /\ UNCHANGED wsvars

\* submit_card_choice, run without another request in between
SubmitChoice(u, rid, card) ==
    /\ rid \in DOMAIN rounds
    /\ CanSubmitChoice(u, rid, card)
    /\ Len(choices) < MaxChoices
    /\ participants' = update_player_activity(u, games[rounds[rid].game].room)
    /\ choices' = Append(choices, [round |-> rid, user |-> u, card |-> card])
    /\ inflight' = inflight
           (+) publish_game_event(games[rounds[rid].game].room, "player_choice_submitted")
    /\ UNCHANGED <<rooms, games, rounds, votes, rating>>
    /\ UNCHANGED wsvars

\* submit_vote's checks with the comparison of the choice's author and the
\* voter left out
CanSubmitVoteAnyChoice(u, rid, c) ==
    /\ games[rounds[rid].game].status = "voting"
    /\ ~ rounds[rid].votePassed
    /\ IsActivePlayer(games[rounds[rid].game].room, u)
    /\ ~ \E v \in VotesOfRound(rid) : votes[v].voter = u
    /\ c \in DOMAIN choices
    /\ choices[c].round = rid

\* the checks of submit_vote, in the order of the code
CanSubmitVote(u, rid, c) ==
    /\ games[rounds[rid].game].status = "voting"
    /\ ~ rounds[rid].votePassed
    /\ IsActivePlayer(games[rounds[rid].game].room, u)
    /\ ~ \E v \in VotesOfRound(rid) : votes[v].voter = u
    /\ c \in DOMAIN choices
    /\ choices[c].round = rid
    /\ choices[c].user # u

\* a vote arrives over HTTP or as a WebSocket action
VoteOps == {"vote", "ws_vote"}

\* submit_vote up to the insert
SubmitVoteCheck(op, u, rid, c) ==
    /\ rid \in DOMAIN rounds
    /\ CanSubmitVote(u, rid, c)
    /\ BagCardinality(inflight) < MaxInflight
    /\ Len(votes) + RequestsInFlight("vote") + RequestsInFlight("ws_vote") < MaxVotes
    /\ participants' = update_player_activity(u, games[rounds[rid].game].room)
    /\ inflight' = inflight (+) SetToBag({Request(op, u, rid, c)})
    /\ UNCHANGED <<rooms, games, rounds, choices, votes, rating>>
    /\ UNCHANGED wsvars

\* _check_all_players_voted, evaluated on the votes table `vs`: every connected
\* active player has voted and there are at least two of them
AllPlayersVoted(rid, vs) ==
    LET r == games[rounds[rid].game].room
        players_should_vote ==
            Cardinality({i \in ActiveRows(r) : participants[i].conn = "connected"})
        votes_count == Cardinality({v \in DOMAIN vs : vs[v].round = rid})
    IN  votes_count >= players_should_vote /\ players_should_vote > 1

\* submit_vote from the insert on: the vote is stored, and if all connected
\* players have voted the task _calculate_results_async is created; the
\* WebSocket handler goes on to _check_and_notify_results
SubmitVoteInsert(op, u, rid, c) ==
    /\ InFlight(Request(op, u, rid, c))
    /\ inflight' = (IF op = "ws_vote"
                    THEN (inflight (-) SetToBag({Request(op, u, rid, c)}))
                             (+) SetToBag({Request("notify", None, rid, None)})
                    ELSE inflight (-) SetToBag({Request(op, u, rid, c)}))
           (+) publish_game_event(games[rounds[rid].game].room, "vote_submitted")
    /\ votes' = Append(votes, [round |-> rid, voter |-> u, choice |-> c])
    /\ rounds' = IF AllPlayersVoted(rid, votes')
                 THEN [rounds EXCEPT ![rid].calcPending = @ + 1]
                 ELSE rounds
    /\ UNCHANGED <<rooms, participants, games, choices, rating>>
    /\ UNCHANGED wsvars

\* submit_vote, run without another request in between
SubmitVote(op, u, rid, c) ==
    /\ rid \in DOMAIN rounds
    /\ CanSubmitVote(u, rid, c)
    /\ Len(votes) < MaxVotes
    /\ op = "ws_vote" => BagCardinality(inflight) < MaxInflight
    /\ participants' = update_player_activity(u, games[rounds[rid].game].room)
    /\ votes' = Append(votes, [round |-> rid, voter |-> u, choice |-> c])
    /\ inflight' = (IF op = "ws_vote"
                    THEN inflight (+) SetToBag({Request("notify", None, rid, None)})
                    ELSE inflight)
           (+) publish_game_event(games[rounds[rid].game].room, "vote_submitted")
    /\ rounds' = IF AllPlayersVoted(rid, votes')
                 THEN [rounds EXCEPT ![rid].calcPending = @ + 1]
                 ELSE rounds
    /\ UNCHANGED <<rooms, games, choices, rating>>
    /\ UNCHANGED wsvars

----------------------------------------------------------------------------
(* Results and the next round *)

\* the winner row of calculate_round_results: the first row of the vote count
\* query with the highest count (the order within equal counts is the
\* database's), None if the round has no choice
WinnerChoices(rid) ==
    IF ChoicesOfRound(rid) = {} THEN {None}
    ELSE {c \in ChoicesOfRound(rid) :
             \A d \in ChoicesOfRound(rid) : VoteCount(c) >= VoteCount(d)}

\* calculate_round_results on the rounds table `rs`, up to its sleep in
\* _schedule_next_round: the game is in round_results, the round has finished_at,
\* the winner of a round with at least one vote gets the round point
calculate_round_results(rid, rs) ==
    \E w \in WinnerChoices(rid) :
        LET awarded == w # None /\ VoteCount(w) > 0
        IN  /\ rs[rid].triggers < MaxFinalise
            /\ games' = [games EXCEPT ![rs[rid].game].status = "round_results"]
            /\ IF awarded
               THEN /\ rating[choices[w].user] + ROUND_POINTS <= MaxRating
                    /\ rating' = [rating EXCEPT ![choices[w].user] = @ + ROUND_POINTS]
               ELSE rating' = rating
            /\ rounds' = [rs EXCEPT ![rid].finished = TRUE,
                                    ![rid].awards = IF awarded THEN @ + 1 ELSE @,
                                    ![rid].triggers = @ + 1,
                                    ![rid].nextPending = @ + 1]

\* GET /games/rounds/{round_id}/results
GetRoundResults(rid) ==
    /\ rid \in DOMAIN rounds
    /\ calculate_round_results(rid, rounds)
    /\ UNCHANGED <<rooms, participants, choices, votes, inflight>>
    /\ UNCHANGED wsvars

\* the task _calculate_results_async created by _check_all_players_voted
CalcResultsTask(rid) ==
    /\ rid \in DOMAIN rounds
    /\ rounds[rid].calcPending > 0
    /\ calculate_round_results(rid, [rounds EXCEPT ![rid].calcPending = @ - 1])
    /\ UNCHANGED <<rooms, participants, choices, votes, inflight>>
    /\ UNCHANGED wsvars

\* _check_and_notify_results(game_id, round_id), run by the WebSocket handler
\* after a vote; it does not depend on the voter
CheckAndNotifyResults(rid) ==
    /\ InFlight(Request("notify", None, rid, None))
    /\ inflight' = inflight (-) SetToBag({Request("notify", None, rid, None)})
    /\ IF games[rounds[rid].game].status = "round_results"
       THEN calculate_round_results(rid, rounds)
       ELSE UNCHANGED <<games, rounds, rating>>
    /\ UNCHANGED <<rooms, participants, choices, votes>>
    /\ UNCHANGED wsvars

\* _schedule_next_round after its sleep: end_game after round 7, otherwise
\* start_round; an exception of start_round ends the game
schedule_next_round(rid, cap) ==
    LET g  == rounds[rid].game
        rs == [rounds EXCEPT ![rid].nextPending = @ - 1]
    IN  IF rounds[rid].number < TOTAL_ROUNDS /\ CanStartRound(g)
        THEN start_round(g, rs, cap)
        ELSE end_game(g) /\ rounds' = rs /\ participants' = participants

NextRoundTask(rid) ==
    /\ rid \in DOMAIN rounds
    /\ rounds[rid].nextPending > 0
    /\ schedule_next_round(rid, MaxRounds)
    /\ UNCHANGED <<choices, votes, inflight>>
    /\ UNCHANGED wsvars

\* the same task for a game that is played to its last round
NextRoundTaskLong(rid) ==
    /\ rid \in DOMAIN rounds
    /\ rounds[rid].nextPending > 0
    /\ schedule_next_round(rid, MaxRoundsLong)
    /\ UNCHANGED <<choices, votes, inflight>>
    /\ UNCHANGED wsvars

----------------------------------------------------------------------------
(* Timers and presence *)

\* handle_missed_action excluding the player at the first missed action
handle_missed_action_first_miss(p, i) ==
    [p EXCEPT ![i].missed = @ + 1,
              ![i].status = "left",
              ![i].conn = "disconnected"]

\* handle_missed_action on row i of the table p
handle_missed_action(p, i) ==
    LET should_exclude == p[i].missed + 1 >= MAX_MISSED_ACTIONS
    IN  [p EXCEPT ![i].missed = @ + 1,
                  ![i].status = IF should_exclude THEN "left" ELSE @,
                  ![i].conn = IF should_exclude THEN "disconnected" ELSE "timeout"]

\* the loop over the active players whose user is not in `done`: for each,
\* handle_missed_action reads one row of (user, room), whichever the database
\* returns first
MissedOutcomes(r, done) ==
    LET missing == {participants[i].user : i \in ActiveRows(r)} \ done
        picks   == {f \in [missing -> DOMAIN participants] :
                       \A u \in missing : f[u] \in ParticipantRows(r, u)}
    IN  {[i \in DOMAIN participants |->
            IF \E u \in missing : f[u] = i
            THEN handle_missed_action(participants, i)[i]
            ELSE participants[i]] : f \in picks}

\* _handle_selection_timeout without the re-read of the game status: the missed
\* actions are recorded whatever the phase; start_voting and end_game are called
\* as in the code, and start_voting raises outside card_selection
SelectionTimeoutNoStatusCheck(rid) ==
    /\ rid \in DOMAIN rounds
    /\ rounds[rid].selTimer \in {"sleeping", "due"}
    /\ LET g == rounds[rid].game
       IN  /\ participants' \in MissedOutcomes(games[g].room,
                    {choices[c].user : c \in ChoicesOfRound(rid)})
           /\ IF Cardinality(ChoicesOfRound(rid)) >= MIN_CHOICES
              THEN IF games[g].status = "card_selection"
                   THEN /\ games' = [games EXCEPT ![g].status = "voting"]
                        /\ rounds' = [rounds EXCEPT ![rid] =
                               start_voting_round([@ EXCEPT !.selTimer = "done"])]
                        /\ UNCHANGED <<rooms, rating>>
                   ELSE /\ rounds' = [rounds EXCEPT ![rid].selTimer = "done"]
                        /\ UNCHANGED <<rooms, games, rating>>
              ELSE /\ end_game(g)
                   /\ rounds' = [rounds EXCEPT ![rid].selTimer = "done"]
    /\ UNCHANGED <<choices, votes, inflight>>
    /\ UNCHANGED wsvars

\* _handle_selection_timeout after its sleep
SelectionTimeout(rid) ==
    /\ rid \in DOMAIN rounds
    /\ rounds[rid].selTimer \in {"sleeping", "due"}
    /\ LET g == rounds[rid].game
       IN  IF games[g].status # "card_selection"
           THEN /\ rounds' = [rounds EXCEPT ![rid].selTimer = "returned"]
                /\ UNCHANGED <<rooms, participants, games, rating>>
           ELSE /\ participants' \in MissedOutcomes(games[g].room,
                        {choices[c].user : c \in ChoicesOfRound(rid)})
                /\ IF Cardinality(ChoicesOfRound(rid)) >= MIN_CHOICES
                   THEN /\ games' = [games EXCEPT ![g].status = "voting"]
                        /\ rounds' = [rounds EXCEPT ![rid] =
                               start_voting_round([@ EXCEPT !.selTimer = "done"])]
                        /\ UNCHANGED <<rooms, rating>>
                   ELSE /\ end_game(g)
                        /\ rounds' = [rounds EXCEPT ![rid].selTimer = "done"]
    /\ UNCHANGED <<choices, votes, inflight>>
    /\ UNCHANGED wsvars

\* _handle_voting_timeout after its sleep until voting_deadline, which is
\* VOTING_TIMEOUT after selection_deadline
VotingTimeout(rid) ==
    /\ rid \in DOMAIN rounds
    /\ rounds[rid].voteTimers > 0
    /\ SelectionDeadlinePassed(rid)
    /\ LET g  == rounds[rid].game
           rs == [rounds EXCEPT ![rid].voteTimers = @ - 1, ![rid].votePassed = TRUE]
       IN  IF games[g].status # "voting"
           THEN /\ rounds' = rs
                /\ UNCHANGED <<rooms, participants, games, rating>>
           ELSE /\ participants' \in MissedOutcomes(games[g].room,
                        {votes[v].voter : v \in VotesOfRound(rid)})
                /\ calculate_round_results(rid, [rs EXCEPT ![rid].auto_advanced = TRUE])
                /\ rooms' = rooms
    /\ UNCHANGED <<choices, votes, inflight>>
    /\ UNCHANGED wsvars

\* mark_player_disconnected: the row is whichever the query returns first
MarkPlayerDisconnected(u, r) ==
    /\ \E i \in ParticipantRows(r, u) :
         LET should_exclude == participants[i].disc + 1 >= MAX_DISCONNECT_COUNT
         IN  /\ participants[i].disc < MaxDisconnects
             /\ participants' = [participants EXCEPT
                    ![i].disc = @ + 1,
                    ![i].conn = "disconnected",
                    ![i].status = IF should_exclude THEN "left" ELSE "disconnected"]
    /\ UNCHANGED <<rooms, games, rounds, choices, votes, rating, inflight>>
    /\ UNCHANGED wsvars

\* POST /games/rooms/{room_id}/ping and the WebSocket ping
PingPlayer(u, r) ==
    /\ ParticipantRows(r, u) # {}
    /\ participants' = update_player_activity(u, r)
    /\ UNCHANGED <<rooms, games, rounds, choices, votes, rating, inflight>>
    /\ UNCHANGED wsvars

\* check_players_timeout: the connected active rows of the room whose last
\* activity is older than TIMEOUT_SECONDS become timeout
CheckPlayersTimeout(r) ==
    /\ \E late \in SUBSET {i \in ActiveRows(r) : participants[i].conn = "connected"} :
         /\ late # {}
         /\ participants' = [i \in DOMAIN participants |->
                IF i \in late THEN [participants[i] EXCEPT !.conn = "timeout"]
                ELSE participants[i]]
    /\ UNCHANGED <<rooms, games, rounds, choices, votes, rating, inflight>>
    /\ UNCHANGED wsvars

----------------------------------------------------------------------------
(* Initial states *)

NoRoom == [status |-> "none", creator |-> None, max_players |-> 0]

\* the ConnectionManager after its construction: nobody is connected; the
\* cache holds no game state
NoConnections ==
    /\ sockets = << >>
    /\ active_connections = [u \in Users |-> None]
    /\ room_users = [r \in Rooms |-> {}]
    /\ user_room = [u \in Users |-> None]
    /\ redis_event_handlers = {}
    /\ game_state_cache = [g \in 1..MaxGames |-> NoState]

\* the empty database
Init ==
    /\ rooms = [r \in Rooms |-> NoRoom]
    /\ participants = << >>
    /\ games = << >>
    /\ rounds = << >>
    /\ choices = << >>
    /\ votes = << >>
    /\ rating = [u \in Users |-> 0]
    /\ inflight = EmptyBag
    /\ NoConnections

\* the database after create_room by user 1, two joins and start_game: room 1 is
\* playing with three active players and its game is in starting
InitGame ==
    /\ rooms = [r \in Rooms |->
                  IF r = 1 THEN [status |-> "playing", creator |-> 1,
                                 max_players |-> MIN_PLAYERS]
                  ELSE NoRoom]
    /\ participants = [i \in 1..MIN_PLAYERS |-> NewParticipant(1, i)]
    /\ games = <<NewGame(1)>>
    /\ rounds = << >>
    /\ choices = << >>
    /\ votes = << >>
    /\ rating = [u \in Users |-> 0]
    /\ inflight = EmptyBag
    /\ NoConnections

\* max_players of a new room (RoomCreate allows 3..8)
MaxPlayersChoices == {MIN_PLAYERS}

----------------------------------------------------------------------------
(* Specifications *)

\* Rooms, one request at a time: create, join, leave, start_game, end_game and
\* start_round
Next ==
    \/ \E u \in Users, mp \in MaxPlayersChoices : CreateRoom(u, mp)
    \/ \E u \in Users, r \in Rooms : JoinRoom(u, r)
    \/ \E u \in Users, r \in Rooms : LeaveRoom(u, r)
    \/ \E u \in Users, r \in Rooms : StartGame(u, r)
    \/ \E g \in 1..MaxGames : StartRound(g)
    \/ \E g \in 1..MaxGames : EndGame(g)

Spec == Init /\ [][Next]_vars

\* Rooms with start_game requests that overlap
NextStartGame ==
    \/ \E u \in Users, mp \in MaxPlayersChoices : CreateRoom(u, mp)
    \/ \E u \in Users, r \in Rooms : JoinRoom(u, r)
    \/ \E u \in Users, r \in Rooms : LeaveRoom(u, r)
    \/ \E u \in Users, r \in Rooms : StartGameCheck(u, r)
    \/ \E u \in Users, r \in Rooms : StartGameCreate(u, r)
    \/ \E g \in 1..MaxGames : EndGame(g)

SpecStartGame == Init /\ [][NextStartGame]_vars

\* One game from start_game on, one request at a time: rounds, choices, votes,
\* results, timers and the tasks they create
NextPlay ==
    \/ \E g \in 1..MaxGames : StartRound(g)
    \/ \E u \in Users, rid \in 1..MaxRounds, card \in Cards : SubmitChoice(u, rid, card)
    \/ \E rid \in 1..MaxRounds : StartVoting(rid)
    \/ \E u \in Users, rid \in 1..MaxRounds, c \in 1..MaxChoices :
          SubmitVote("vote", u, rid, c)
    \/ \E rid \in 1..MaxRounds : GetRoundResults(rid)
    \/ \E rid \in 1..MaxRounds : CalcResultsTask(rid)
    \/ \E rid \in 1..MaxRounds : NextRoundTask(rid)
    \/ \E rid \in 1..MaxRounds : SelectionTimeout(rid)
    \/ \E rid \in 1..MaxRounds : VotingTimeout(rid)
    \/ \E g \in 1..MaxGames : EndGame(g)

SpecPlay == InitGame /\ [][NextPlay]_vars

\* One game with submit requests that overlap, over HTTP and WebSocket, and the
\* tasks the votes create
NextSubmit ==
    \/ \E g \in 1..MaxGames : StartRound(g)
    \/ \E u \in Users, rid \in 1..MaxRounds, card \in Cards : SubmitChoiceCheck(u, rid, card)
    \/ \E u \in Users, rid \in 1..MaxRounds, card \in Cards : SubmitChoiceInsert(u, rid, card)
    \/ \E rid \in 1..MaxRounds : StartVoting(rid)
    \/ \E op \in VoteOps, u \in Users, rid \in 1..MaxRounds, c \in 1..MaxChoices :
          SubmitVoteCheck(op, u, rid, c)
    \/ \E op \in VoteOps, u \in Users, rid \in 1..MaxRounds, c \in 1..MaxChoices :
          SubmitVoteInsert(op, u, rid, c)
    \/ \E rid \in 1..MaxRounds : CheckAndNotifyResults(rid)
    \/ \E rid \in 1..MaxRounds : CalcResultsTask(rid)

SpecSubmit == InitGame /\ [][NextSubmit]_vars

\* One game played round after round without choices: start_round called
\* directly, the results endpoint, and the next-round task of the game's
\* latest round
NextRounds ==
    \/ \E g \in 1..MaxGames : StartRoundLong(g)
    \/ \E rid \in {Len(rounds)} \ {0} : GetRoundResults(rid)
    \/ \E rid \in {Len(rounds)} \ {0} : NextRoundTaskLong(rid)

SpecRounds == InitGame /\ [][NextRounds]_vars

\* The players of one game: presence, leaving, missed actions, cleanup
NextPresence ==
    \/ \E u \in Users, r \in Rooms : MarkPlayerDisconnected(u, r)
    \/ \E u \in Users, r \in Rooms : PingPlayer(u, r)
    \/ \E r \in Rooms : CheckPlayersTimeout(r)
    \/ \E u \in Users, r \in Rooms : LeaveRoom(u, r)
    \/ \E g \in 1..MaxGames : StartRound(g)
    \/ \E rid \in 1..MaxRounds : SelectionTimeout(rid)

SpecPresence == InitGame /\ [][NextPresence]_vars

----------------------------------------------------------------------------
(* Properties *)

\* C1: every round holds at most one choice per (round, user) and at most one
\* vote per (round, voter), whatever the interleaving of the submit requests.
C1_OneChoiceOneVote ==
    /\ \A c, d \in DOMAIN choices :
         (choices[c].round = choices[d].round /\ choices[c].user = choices[d].user)
             => c = d
    /\ \A v, w \in DOMAIN votes :
         (votes[v].round = votes[w].round /\ votes[v].voter = votes[w].voter)
             => v = w

\* C2: a round is finalised at most once: the round point is granted at most
\* once and _schedule_next_round is entered at most once for the round.
C2_FinalisedOnce ==
    \A rid \in DOMAIN rounds :
        rounds[rid].awards <= 1 /\ rounds[rid].triggers <= 1

PhaseDiagram ==
    {<<"starting", "card_selection">>, <<"card_selection", "voting">>,
     <<"voting", "round_results">>, <<"round_results", "card_selection">>,
     <<"starting", "finished">>, <<"card_selection", "finished">>,
     <<"voting", "finished">>, <<"round_results", "finished">>}

\* C3: the status of a game changes only along the phase diagram; nothing
\* leaves finished and nothing goes from card_selection to round_results.
C3_PhaseDiagram ==
    [][\A g \in DOMAIN games :
          games'[g].status # games[g].status
              => <<games[g].status, games'[g].status>> \in PhaseDiagram]_vars

\* C4: a selection timer that wakes up when the game has left card_selection
\* changes no data: rooms, participants, games, choices, votes, ratings and
\* every field of the round but the timer's own position stay as they were.
C4_StaleSelectionTimer ==
    [][\A rid \in DOMAIN rounds :
          (/\ rounds[rid].selTimer = "sleeping"
           /\ rounds'[rid].selTimer # "sleeping"
           /\ games[rounds[rid].game].status # "card_selection")
              => /\ UNCHANGED <<rooms, participants, games, choices, votes, rating>>
                 /\ [rounds' EXCEPT ![rid].selTimer = "sleeping"] = rounds]_vars

\* the selection timer of a round woke up after start_voting had put the game
\* into voting, and returned
C4_Witness ==
    \E rid \in DOMAIN rounds :
        /\ rounds[rid].selTimer = "returned"
        /\ rounds[rid].voteTimers > 0
        /\ games[rounds[rid].game].status = "voting"

\* C5: for every vote, the author of the vote's choice differs from the voter.
C5_NoVoteForOwnChoice ==
    \A v \in DOMAIN votes : choices[votes[v].choice].user # votes[v].voter

\* three votes are stored, two of them by one voter through overlapping requests
C5_Witness ==
    /\ Len(votes) >= MIN_PLAYERS
    /\ \E v \in DOMAIN votes : \E w \in DOMAIN votes :
          v # w /\ votes[v].voter = votes[w].voter

\* the highest round_number among the rounds of a game, 0 for a game without
\* rounds
HighestRoundNumber(g) ==
    IF RoundsOf(g) = {} THEN 0 ELSE Max({rounds[rid].number : rid \in RoundsOf(g)})

\* C6: the current_round of every game equals the highest round_number among
\* the game's rounds and is at most 7, from start_game on.
C6_CurrentRoundIsHighest ==
    \A g \in DOMAIN games :
        /\ games[g].current_round = HighestRoundNumber(g)
        /\ games[g].current_round <= TOTAL_ROUNDS

C8_OneGamePerRoom ==
    \A r \in Rooms :
        /\ Cardinality(NonFinishedGames(r)) <= 1
        /\ rooms[r].status = "playing" => Cardinality(NonFinishedGames(r)) = 1

RoomDiagram ==
    {<<"none", "waiting">>, <<"waiting", "playing">>, <<"playing", "finished">>,
     <<"waiting", "cancelled">>}

\* C9: the status of a room moves only waiting -> playing -> finished or
\* waiting -> cancelled: it never returns to waiting, and a finished or
\* cancelled room keeps its status.
C9_RoomDiagram ==
    [][\A r \in Rooms :
          rooms'[r].status # rooms[r].status
              => <<rooms[r].status, rooms'[r].status>> \in RoomDiagram]_vars

\* one room was cancelled by its creator leaving, another was played and
\* finished, and a player left the finished room afterwards
C9_Witness ==
    \E r, q \in Rooms :
        /\ rooms[r].status = "cancelled"
        /\ rooms[q].status = "finished"
        /\ \E i \in DOMAIN participants :
              participants[i].room = q /\ participants[i].status = "left"

\* C10: a participant row whose status is left keeps the status left.
C10_LeftIsFinal ==
    [][\A i \in DOMAIN participants :
          participants[i].status = "left" => participants'[i].status = "left"]_vars

\* the room whose state a suspended request has read
RoomOfRequest(req) ==
    IF req.op = "start_game" THEN req.target
    ELSE games[rounds[req.target].game].room

\* the handlers suspended in the middle of their work on room r
RequestsOnRoom(r) ==
    LET S == {req \in BagToSet(inflight) : RoomOfRequest(req) = r}
    IN  IF S = {} THEN 0 ELSE BagCardinality([req \in S |-> inflight[req]])

\* C11: the state-changing operations on one room never interleave: while one
\* of them is between its reads and its writes, no other one has begun on the
\* same room.
C11_RoomSerialised ==
    \A r \in Rooms : RequestsOnRoom(r) <= 1

----------------------------------------------------------------------------
(* Deadlines and rejected submissions *)

\* the clock passes selection_deadline; the task _handle_selection_timeout
\* wakes up and has not run yet
SelectionDeadline(rid) ==
    /\ rid \in DOMAIN rounds
    /\ rounds[rid].selTimer \in {"sleeping", "lost"}
    /\ rounds' = [rounds EXCEPT ![rid].selTimer =
                      IF @ = "sleeping" THEN "due" ELSE "lost_due"]
    /\ UNCHANGED <<rooms, participants, games, choices, votes, rating, inflight>>
    /\ UNCHANGED wsvars

\* the clock passes voting_deadline, which start_round has set VOTING_TIMEOUT
\* after selection_deadline
VotingDeadline(rid) ==
    /\ rid \in DOMAIN rounds
    /\ SelectionDeadlinePassed(rid)
    /\ ~ rounds[rid].votePassed
    /\ rounds' = [rounds EXCEPT ![rid].votePassed = TRUE]
    /\ UNCHANGED <<rooms, participants, games, choices, votes, rating, inflight>>
    /\ UNCHANGED wsvars

\* the check at which submit_card_choice raises: the first one that fails, in
\* the order of the code; "none" when all of them pass
ChoiceError(u, rid, card) ==
    LET g == games[rounds[rid].game]
    IN  IF g.status # "card_selection" THEN "phase"
        ELSE IF SelectionDeadlinePassed(rid) THEN "deadline"
        ELSE IF ~ IsActivePlayer(g.room, u) THEN "not_participant"
        ELSE IF \E c \in ChoicesOfRound(rid) : choices[c].user = u
             THEN "duplicate"
        ELSE IF ~ UserHasCard(u, card) THEN "card_not_owned"
        ELSE "none"

\* the check at which submit_vote raises, likewise
VoteError(u, rid, c) ==
    LET g == games[rounds[rid].game]
    IN  IF g.status # "voting" THEN "phase"
        ELSE IF rounds[rid].votePassed THEN "deadline"
        ELSE IF ~ IsActivePlayer(g.room, u) THEN "not_participant"
        ELSE IF \E v \in VotesOfRound(rid) : votes[v].voter = u
             THEN "duplicate"
        ELSE IF ~ (c \in DOMAIN choices /\ choices[c].round = rid)
             THEN "unknown_choice"
        ELSE IF choices[c].user = u THEN "own_choice"
        ELSE "none"

\* the exception raised at a check: _validate_player_in_game raises
\* PermissionError, every other check ValidationError
ExceptionOf(check) ==
    IF check = "not_participant" THEN "PermissionError" ELSE "ValidationError"

\* the participants table as the session of a failing submission has left it
\* when the exception is raised: update_player_activity has run if the phase,
\* the deadline and the membership were accepted
activity_before_raise(u, rid, phase, passed) ==
    LET g == games[rounds[rid].game]
    IN  IF g.status = phase /\ ~ passed /\ IsActivePlayer(g.room, u)
        THEN update_player_activity(u, g.room)
        ELSE participants

\* a request whose session is committed whether the handler returns or raises
request_outcome_no_rollback(raised, before, pending) == pending

\* get_async_session: the request's transaction is committed when the handler
\* returns and discarded when it raises
request_outcome(raised, before, pending) == IF raised THEN before ELSE pending

\* the choices a vote can name: the rows of the table and one id past them
ChoiceIds == 1..(MaxChoices + 1)

ErrorOps == {"choice_error", "vote_error"}

\* the error responses not yet received
ErrorsInFlight == RequestsInFlight("choice_error") + RequestsInFlight("vote_error")

\* POST /games/rounds/{round_id}/choice answered with an error; the answer is
\* on its way to the client
SubmitChoiceRejected(u, rid, card) ==
    /\ rid \in DOMAIN rounds
    /\ ChoiceError(u, rid, card) # "none"
    /\ ErrorsInFlight < MaxErrors
    /\ participants' = request_outcome(TRUE, participants,
           activity_before_raise(u, rid, "card_selection", SelectionDeadlinePassed(rid)))
    /\ inflight' = inflight (+)
           SetToBag({Request("choice_error", u, rid, ChoiceError(u, rid, card))})
    /\ UNCHANGED <<rooms, games, rounds, choices, votes, rating>>
    /\ UNCHANGED wsvars

\* POST /games/rounds/{round_id}/vote answered with an error
SubmitVoteRejected(u, rid, c) ==
    /\ rid \in DOMAIN rounds
    /\ VoteError(u, rid, c) # "none"
    /\ ErrorsInFlight < MaxErrors
    /\ participants' = request_outcome(TRUE, participants,
           activity_before_raise(u, rid, "voting", rounds[rid].votePassed))
    /\ inflight' = inflight (+)
           SetToBag({Request("vote_error", u, rid, VoteError(u, rid, c))})
    /\ UNCHANGED <<rooms, games, rounds, choices, votes, rating>>
    /\ UNCHANGED wsvars

\* the client receives the error response
ReceiveError(req) ==
    /\ InFlight(req)
    /\ req.op \in ErrorOps
    /\ inflight' = inflight (-) SetToBag({req})
    /\ UNCHANGED <<rooms, participants, games, rounds, choices, votes, rating>>
    /\ UNCHANGED wsvars

\* One round with its deadlines: accepted and rejected submissions, the clock
\* and the timers.
NextDeadline ==
    \/ \E g \in 1..MaxGames : StartRound(g)
    \/ \E u \in Users, rid \in 1..MaxRounds, card \in Cards : SubmitChoice(u, rid, card)
    \/ \E u \in Users, rid \in 1..MaxRounds, card \in Cards :
            SubmitChoiceRejected(u, rid, card)
    \/ \E rid \in 1..MaxRounds : StartVoting(rid)
    \/ \E u \in Users, rid \in 1..MaxRounds, c \in ChoiceIds : SubmitVote("vote", u, rid, c)
    \/ \E u \in Users, rid \in 1..MaxRounds, c \in ChoiceIds : SubmitVoteRejected(u, rid, c)
    \/ \E req \in BagToSet(inflight) : ReceiveError(req)
    \/ \E rid \in 1..MaxRounds : SelectionDeadline(rid)
    \/ \E rid \in 1..MaxRounds : VotingDeadline(rid)
    \/ \E rid \in 1..MaxRounds : SelectionTimeout(rid)
    \/ \E rid \in 1..MaxRounds : VotingTimeout(rid)

SpecDeadline == InitGame /\ [][NextDeadline]_vars

\* the error responses a step sends
NewErrors == {req \in BagToSet(inflight') :
                 /\ req.op \in ErrorOps
                 /\ CopiesIn(req, inflight') > CopiesIn(req, inflight)}

\* C12: a choice is stored only if, when submit_card_choice is called, the game
\* is in card_selection, the selection deadline has not passed, the user is an
\* active participant of the room and owns the card; a vote is stored only if
\* the game is in voting, the voting deadline has not passed and the voter is
\* an active participant; a submission after its deadline is answered with a
\* validation error.
C12_StoredOnlyWhenValid ==
    [][/\ \A c \in DOMAIN choices' \ DOMAIN choices :
            LET rid == choices'[c].round
                g   == games[rounds[rid].game]
            IN  /\ g.status = "card_selection"
                /\ ~ SelectionDeadlinePassed(rid)
                /\ IsActivePlayer(g.room, choices'[c].user)
                /\ UserHasCard(choices'[c].user, choices'[c].card)
       /\ \A v \in DOMAIN votes' \ DOMAIN votes :
            LET rid == votes'[v].round
                g   == games[rounds[rid].game]
            IN  /\ g.status = "voting"
                /\ ~ rounds[rid].votePassed
                /\ IsActivePlayer(g.room, votes'[v].voter)
       /\ \A req \in NewErrors :
            LET g == games[rounds[req.target].game]
            IN  \/ /\ req.op = "choice_error"
                   /\ g.status = "card_selection"
                   /\ SelectionDeadlinePassed(req.target)
                \/ /\ req.op = "vote_error"
                   /\ g.status = "voting"
                   /\ rounds[req.target].votePassed
                => /\ req.arg = "deadline"
                   /\ ExceptionOf(req.arg) = "ValidationError"]_vars

\* a submission made after its deadline, in the right phase and by an active
\* player, has been answered with an error, next to submissions that were
\* stored before the deadline
C12_Witness ==
    \E req \in BagToSet(inflight) :
        /\ req.op = "vote_error"
        /\ req.arg = "deadline"
        /\ IsActivePlayer(games[rounds[req.target].game].room, req.user)
        /\ VotesOfRound(req.target) # {}

\* One round before its deadlines, with players whose connection has timed
\* out: accepted and rejected submissions and the presence sweep.
NextReject ==
    \/ \E g \in 1..MaxGames : StartRound(g)
    \/ \E u \in Users, rid \in 1..MaxRounds, card \in Cards : SubmitChoice(u, rid, card)
    \/ \E u \in Users, rid \in 1..MaxRounds, card \in Cards :
            SubmitChoiceRejected(u, rid, card)
    \/ \E rid \in 1..MaxRounds : StartVoting(rid)
    \/ \E u \in Users, rid \in 1..MaxRounds, c \in ChoiceIds : SubmitVote("vote", u, rid, c)
    \/ \E u \in Users, rid \in 1..MaxRounds, c \in ChoiceIds : SubmitVoteRejected(u, rid, c)
    \/ \E req \in BagToSet(inflight) : ReceiveError(req)
    \/ \E r \in Rooms : CheckPlayersTimeout(r)

SpecReject == InitGame /\ [][NextReject]_vars

\* the checks that come after update_player_activity in the two handlers
ChecksAfterActivity == {"duplicate", "card_not_owned", "unknown_choice", "own_choice"}

\* C13: when submit_card_choice or submit_vote is rejected (duplicate, card not
\* owned, unknown choice, own choice, wrong phase, past deadline, not a
\* participant), no stored state changes: not the tables of the game and not
\* the caller's activity and connection status.
C13_RejectedChangesNothing ==
    [][NewErrors # {} =>
          UNCHANGED <<rooms, participants, games, rounds, choices, votes, rating>>]_vars

\* a submission has been rejected at a check that comes after
\* update_player_activity, and the connection status of its sender is "timeout"
C13_Witness ==
    \E req \in BagToSet(inflight) :
        /\ req.op \in ErrorOps
        /\ req.arg \in ChecksAfterActivity
        /\ \E i \in ActiveRowsOf(games[rounds[req.target].game].room, req.user) :
               participants[i].conn = "timeout"

\* the choice submitted first among those with the highest vote count of the
\* round; the rows of player_choices are in the order of their submitted_at
EarliestTopChoice(rid) ==
    CHOOSE c \in WinnerChoices(rid) : \A d \in WinnerChoices(rid) : c <= d

\* C14: when several choices of a round share the highest vote count, the
\* winner of the round, who receives the round point, is the author of the
\* one submitted first.
C14_TieGoesToEarliest ==
    [][\A rid \in DOMAIN rounds :
          rounds'[rid].awards > rounds[rid].awards =>
              LET u == choices[EarliestTopChoice(rid)].user
              IN  rating'[u] > rating[u]]_vars

----------------------------------------------------------------------------
(* What the server does by itself *)

\* _calculate_results_async when its work is lost.  The task is created on the
\* session of the request that stored the vote and is not awaited; the handler
\* returns without another await, and get_async_session commits and closes
\* that session while the task runs on it.  What the task writes after the
\* commit is committed by nobody, and an exception raised by the session used
\* from two coroutines is swallowed by the task's except.
CalcResultsTaskLost(rid) ==
    /\ rid \in DOMAIN rounds
    /\ rounds[rid].calcPending > 0
    /\ rounds' = [rounds EXCEPT ![rid].calcPending = @ - 1]
    /\ UNCHANGED <<rooms, participants, games, choices, votes, rating, inflight>>
    /\ UNCHANGED wsvars

\* One round up to its results, in which the clients submit and the clock
\* stands still: what happens is what the requests and the tasks they create do.
NextAuto ==
    \/ \E g \in 1..MaxGames : StartRound(g)
    \/ \E u \in Users, rid \in 1..MaxRounds, card \in Cards : SubmitChoice(u, rid, card)
    \/ \E rid \in 1..MaxRounds : StartVoting(rid)
    \/ \E u \in Users, rid \in 1..MaxRounds, c \in 1..MaxChoices : SubmitVote("vote", u, rid, c)
    \/ \E rid \in 1..MaxRounds : CalcResultsTask(rid)
    \/ \E rid \in 1..MaxRounds : CalcResultsTaskLost(rid)
    \/ \E r \in Rooms : CheckPlayersTimeout(r)

\* the event loop runs every task that has been created; a client is free to
\* send a request or not
FairAuto ==
    WF_vars(\E rid \in 1..MaxRounds : CalcResultsTask(rid) \/ CalcResultsTaskLost(rid))

SpecAuto == InitGame /\ [][NextAuto]_vars /\ FairAuto

\* the condition of _check_all_players_chose_cards: every connected active
\* player has a choice in the round and there are at least two of them
AllPlayersChose(rid) ==
    LET r == games[rounds[rid].game].room
        connected_players ==
            Cardinality({i \in ActiveRows(r) : participants[i].conn = "connected"})
    IN  /\ Cardinality(ChoicesOfRound(rid)) >= connected_players
        /\ connected_players > 1

\* C15: once a choice has been stored and the round has at least as many
\* choices as the room has connected active players, these being two or more,
\* the game goes on to voting without waiting for the selection deadline.
C15_AllChoseLeadsToVoting ==
    \A rid \in 1..MaxRounds :
        (/\ rid \in DOMAIN rounds
         /\ games[rounds[rid].game].status = "card_selection"
         /\ ChoicesOfRound(rid) # {}
         /\ AllPlayersChose(rid))
        ~> (/\ rid \in DOMAIN rounds
            /\ games[rounds[rid].game].status # "card_selection")

\* C16: once a vote has been stored and the round has at least as many votes
\* as the room has connected active players, these being two or more, the round
\* is finalised (the game is in round_results) without waiting for the voting
\* deadline.
C16_AllVotedLeadsToResults ==
    \A rid \in 1..MaxRounds :
        (/\ rid \in DOMAIN rounds
         /\ games[rounds[rid].game].status = "voting"
         /\ rounds[rid].calcPending > 0)
        ~> (/\ rid \in DOMAIN rounds
            /\ rounds[rid].finished)

\* C17: once start_game has succeeded (the room is playing and its game is in
\* starting), the first round of the game starts without a further action of
\* a client.
C17_StartGameLeadsToFirstRound ==
    \A g \in 1..MaxGames :
        (g \in DOMAIN games /\ games[g].status = "starting")
        ~> (g \in DOMAIN games /\ RoundsOf(g) # {})

\* the events a step puts on the bus
NewEvents == {req \in BagToSet(inflight') :
                 /\ req.op = "event"
                 /\ CopiesIn(req, inflight') > CopiesIn(req, inflight)}

\* C18: every successful state-changing action of a client, made over HTTP or
\* as a WebSocket action, puts at least one event of its kind on the bus
\* channel of the room: a stored choice comes with player_choice_submitted
\* and a stored vote with vote_submitted.
C18_ActionPublishesEvent ==
    [][/\ Len(choices') > Len(choices) =>
              \E req \in NewEvents : req.arg = "player_choice_submitted"
       /\ Len(votes') > Len(votes) =>
              \E req \in NewEvents : req.arg = "vote_submitted"]_vars

----------------------------------------------------------------------------
(* WebSocket connections *)

\* get_user_current_room: the rooms in waiting or playing in which the user has
\* an active participant row; the code takes the first row of the query
CurrentRooms(u) ==
    {r \in Rooms : /\ RoomExists(r)
                   /\ rooms[r].status \in {"waiting", "playing"}
                   /\ ActiveRowsOf(r, u) # {}}

\* a connect that takes the room of connection_established from the room_id of
\* the URL
room_of_connection_from_hint(u, hint) == {hint}

\* the room connect() reports: the result of get_user_current_room, whatever
\* the room_id of the URL says; None when the user has no current room
room_of_connection(u, hint) ==
    IF CurrentRooms(u) = {} THEN {None} ELSE CurrentRooms(u)

\* the room_id a client can put in the URL of the socket (None: no room_id)
Hints == {None} \cup Rooms

\* websocket_endpoint up to the registration: the socket is accepted, and a
\* connection the registry holds for the user is closed (connect awaits
\* accept() and close() before it stores the new socket)
ConnectAccept(u, hint) ==
    /\ Len(sockets) < MaxSockets
    /\ LET old == active_connections[u]
           closed == IF old # None /\ sockets[old].state = "open"
                     THEN [sockets EXCEPT ![old].state = "closed"]
                     ELSE sockets
       IN  sockets' = Append(closed, [user |-> u, hint |-> hint,
                                      state |-> "accepted", room_id |-> None])
    /\ UNCHANGED <<active_connections, room_users, user_room, redis_event_handlers>>
    /\ UNCHANGED <<rooms, participants, games, rounds, choices, votes, rating, inflight>>
    /\ UNCHANGED game_state_cache

\* _sync_join_room on the registry
sync_room_users(u, r) ==
    [x \in Rooms |-> IF x = r THEN room_users[x] \cup {u}
                     ELSE IF x = user_room[u] THEN room_users[x] \ {u}
                     ELSE room_users[x]]

\* subscribe_to_room_events: the instance listens to the channel of the room
\* (the ConnectionManager of the application is built with the bus client)
subscribe_to_room_events(r) == redis_event_handlers \cup {r}

\* the rest of connect(): the socket is stored in active_connections, the
\* registry is synchronised with the user's current room of the database and
\* connection_established is sent; websocket_endpoint then subscribes to the
\* room of the URL, if the URL has one, and waits for messages
ConnectRegister(s) ==
    /\ s \in DOMAIN sockets
    /\ sockets[s].state = "accepted"
    /\ LET u == sockets[s].user
       IN  /\ active_connections' = [active_connections EXCEPT ![u] = s]
           /\ \E r \in room_of_connection(u, sockets[s].hint) :
                /\ sockets' = [sockets EXCEPT ![s].state = "open", ![s].room_id = r]
                /\ IF r # None
                   THEN /\ room_users' = sync_room_users(u, r)
                        /\ user_room' = [user_room EXCEPT ![u] = r]
                   ELSE UNCHANGED <<room_users, user_room>>
    /\ redis_event_handlers' = IF sockets[s].hint # None
                               THEN subscribe_to_room_events(sockets[s].hint)
                               ELSE redis_event_handlers
    /\ UNCHANGED <<rooms, participants, games, rounds, choices, votes, rating, inflight>>
    /\ UNCHANGED game_state_cache

\* the client closes its socket, or the network drops it
ClientClose(s) ==
    /\ s \in DOMAIN sockets
    /\ sockets[s].state = "open"
    /\ sockets' = [sockets EXCEPT ![s].state = "closed"]
    /\ UNCHANGED <<active_connections, room_users, user_room, redis_event_handlers>>
    /\ UNCHANGED <<rooms, participants, games, rounds, choices, votes, rating, inflight>>
    /\ UNCHANGED game_state_cache

\* the handler of a closed socket leaves its receive loop; its finally block
\* calls connection_manager.disconnect(user.id)
HandlerTeardown(s) ==
    /\ s \in DOMAIN sockets
    /\ sockets[s].state = "closed"
    /\ sockets' = [sockets EXCEPT ![s].state = "done"]
    /\ LET u == sockets[s].user
       IN  IF active_connections[u] # None
           THEN /\ active_connections' = [active_connections EXCEPT ![u] = None]
                /\ room_users' = [x \in Rooms |->
                       IF x = user_room[u] THEN room_users[x] \ {u} ELSE room_users[x]]
                /\ user_room' = [user_room EXCEPT ![u] = None]
           ELSE UNCHANGED <<active_connections, room_users, user_room>>
    /\ UNCHANGED redis_event_handlers
    /\ UNCHANGED <<rooms, participants, games, rounds, choices, votes, rating, inflight>>
    /\ UNCHANGED game_state_cache

\* The sockets of the players of a room that is playing, while players leave
\* the room and the game is ended over HTTP.
NextSocket ==
    \/ \E u \in Users, r \in Rooms : LeaveRoom(u, r)
    \/ \E g \in 1..MaxGames : EndGame(g)
    \/ \E u \in Users, hint \in Hints : ConnectAccept(u, hint)
    \/ \E s \in 1..MaxSockets : ConnectRegister(s)
    \/ \E s \in 1..MaxSockets : ClientClose(s)
    \/ \E s \in 1..MaxSockets : HandlerTeardown(s)

SpecSocket == InitGame /\ [][NextSocket]_vars

\* the socket of the user's latest connect
LatestSocket(u) == Max({s \in DOMAIN sockets : sockets[s].user = u})

\* C19: when a user connects again, the new session stays registered after the
\* old one has been closed and its handler has run its teardown:
\* active_connections maps the user to the new socket, and the user is in the
\* local set of the room the connect has put them in.
C19_NewSessionStaysRegistered ==
    \A u \in Users :
        LET mine == {s \in DOMAIN sockets : sockets[s].user = u}
        IN  (/\ Cardinality(mine) > 1
             /\ sockets[LatestSocket(u)].state = "open"
             /\ \A s \in mine \ {LatestSocket(u)} : sockets[s].state = "done") =>
                LET s == LatestSocket(u)
                IN  /\ active_connections[u] = s
                    /\ sockets[s].room_id # None =>
                           /\ user_room[u] = sockets[s].room_id
                           /\ u \in room_users[sockets[s].room_id]

\* C20: a connect, and so a connect that follows a disconnect, is answered
\* with a connection_established whose room_id is the user's current room of
\* the database (a room in waiting or playing in which the user is an active
\* participant), and null when the user has none, whatever room_id the URL
\* carries and whatever the registry held.
C20_EstablishedRoomFromDatabase ==
    [][\A s \in DOMAIN sockets :
          (sockets[s].state = "accepted" /\ sockets'[s].state = "open") =>
              LET u == sockets[s].user
              IN  IF CurrentRooms(u) = {}
                  THEN sockets'[s].room_id = None
                  ELSE sockets'[s].room_id \in CurrentRooms(u)]_vars

\* a user who was connected in room 1 has disconnected, left the room and
\* connected again with room 1 in the URL: the answer carries no room
C20_Witness ==
    \E s \in DOMAIN sockets : \E t \in 1..(s - 1) :
        /\ sockets[t].user = sockets[s].user
        /\ sockets[t].state = "done"
        /\ sockets[t].room_id = 1
        /\ sockets[s].state = "open"
        /\ active_connections[sockets[s].user] = s
        /\ sockets[s].hint = 1
        /\ sockets[s].room_id = None

----------------------------------------------------------------------------
(* Restart of the process *)

\* The process stops and starts again.  The database stays; the asyncio tasks
\* (timers, result and next-round tasks), the requests in progress and the
\* ConnectionManager with its sockets are gone.  startup_event initialises the
\* database, the bus and the cards and creates no task for a running game.
Restart ==
    /\ rounds' = [rid \in DOMAIN rounds |->
           [rounds[rid] EXCEPT
               !.selTimer = IF @ = "sleeping" THEN "lost"
                            ELSE IF @ = "due" THEN "lost_due" ELSE @,
               !.voteTimers = 0,
               !.calcPending = 0,
               !.nextPending = 0]]
    /\ inflight' = EmptyBag
    /\ sockets' = [s \in DOMAIN sockets |-> [sockets[s] EXCEPT !.state = "done"]]
    /\ active_connections' = [u \in Users |-> None]
    /\ room_users' = [r \in Rooms |-> {}]
    /\ user_room' = [u \in Users |-> None]
    /\ redis_event_handlers' = {}
    /\ UNCHANGED <<rooms, participants, games, choices, votes, rating>>
    /\ UNCHANGED game_state_cache

\* One round with its clock and its timers, in a process that may restart.
NextRestart ==
    \/ \E g \in 1..MaxGames : StartRound(g)
    \/ \E u \in Users, rid \in 1..MaxRounds, card \in Cards : SubmitChoice(u, rid, card)
    \/ \E rid \in 1..MaxRounds : StartVoting(rid)
    \/ \E u \in Users, rid \in 1..MaxRounds, c \in 1..MaxChoices : SubmitVote("vote", u, rid, c)
    \/ \E rid \in 1..MaxRounds : SelectionDeadline(rid)
    \/ \E rid \in 1..MaxRounds : VotingDeadline(rid)
    \/ \E rid \in 1..MaxRounds : SelectionTimeout(rid)
    \/ \E rid \in 1..MaxRounds : VotingTimeout(rid)
    \/ Restart

\* the clock advances and the event loop runs the timers that exist; clients
\* and restarts are free
FairRestart ==
    /\ WF_vars(\E rid \in 1..MaxRounds : SelectionDeadline(rid))
    /\ WF_vars(\E rid \in 1..MaxRounds : VotingDeadline(rid))
    /\ WF_vars(\E rid \in 1..MaxRounds : SelectionTimeout(rid))
    /\ WF_vars(\E rid \in 1..MaxRounds : VotingTimeout(rid))

SpecRestart == InitGame /\ [][NextRestart]_vars /\ FairRestart

\* C21: after a restart of the process while a game is in card_selection or
\* voting, the timer of that phase is set up again from the stored deadline, so
\* the phase is still left automatically once the deadline has passed.
C21_TimersSurviveRestart ==
    \A rid \in 1..MaxRounds :
        /\ (/\ rid \in DOMAIN rounds
            /\ rounds[rid].selTimer \in {"lost", "lost_due"}
            /\ games[rounds[rid].game].status = "card_selection")
           ~> (/\ rid \in DOMAIN rounds
               /\ games[rounds[rid].game].status # "card_selection")
        /\ (/\ rid \in DOMAIN rounds
            /\ rounds[rid].selTimer \in {"lost", "lost_due"}
            /\ games[rounds[rid].game].status = "voting")
           ~> (/\ rid \in DOMAIN rounds
               /\ games[rounds[rid].game].status # "voting")

-----------------------------------------------------------------------------
(* The timers of a game that runs to its end *)

\* One game with its clock and its timer tasks; the process is never restarted
NextTimers ==
    \/ \E g \in 1..MaxGames : StartRoundLong(g)
    \/ \E u \in Users, rid \in 1..MaxRoundsLong, card \in Cards :
           SubmitChoice(u, rid, card)
    \/ \E u \in Users, rid \in 1..MaxRoundsLong, c \in 1..MaxChoices :
           SubmitVote("vote", u, rid, c)
    \/ \E rid \in 1..MaxRoundsLong : SelectionDeadline(rid)
    \/ \E rid \in 1..MaxRoundsLong : VotingDeadline(rid)
    \/ \E rid \in 1..MaxRoundsLong : SelectionTimeout(rid)
    \/ \E rid \in 1..MaxRoundsLong : VotingTimeout(rid)
    \/ \E rid \in 1..MaxRoundsLong : NextRoundTaskLong(rid)

\* The clock advances and a created task runs; no client has to act
FairTimers ==
    /\ WF_vars(\E rid \in 1..MaxRoundsLong : SelectionDeadline(rid))
    /\ WF_vars(\E rid \in 1..MaxRoundsLong : VotingDeadline(rid))
    /\ WF_vars(\E rid \in 1..MaxRoundsLong : SelectionTimeout(rid))
    /\ WF_vars(\E rid \in 1..MaxRoundsLong : VotingTimeout(rid))
    /\ WF_vars(\E rid \in 1..MaxRoundsLong : NextRoundTaskLong(rid))

SpecTimers == InitGame /\ [][NextTimers]_vars /\ FairTimers

\* C22: with fair timers and no restart every phase is left after its
\* deadline without any player acting: card_selection for voting or the end
\* of the game, voting for round_results, round_results for the next round or
\* the end of the game; so every started game is finished in the end
C22_EveryGameFinishes ==
    \A g \in 1..MaxGames :
        /\ (g \in DOMAIN games /\ games[g].status = "card_selection")
               ~> (g \in DOMAIN games /\ games[g].status # "card_selection")
        /\ (g \in DOMAIN games /\ games[g].status = "voting")
               ~> (g \in DOMAIN games /\ games[g].status # "voting")
        /\ (g \in DOMAIN games /\ games[g].status = "round_results")
               ~> (g \in DOMAIN games /\ games[g].status # "round_results")
        /\ (g \in DOMAIN games) ~> (g \in DOMAIN games /\ games[g].status = "finished")

-----------------------------------------------------------------------------
(* Timers of an earlier round *)

MaxRoundsTwo == 2

\* start_round and _schedule_next_round for a game that gets a second round
StartRoundTwo(g) ==
    /\ g \in DOMAIN games
    /\ CanStartRound(g)
    /\ HasPlayersForRound(g)
    /\ start_round(g, rounds, MaxRoundsTwo)
    /\ UNCHANGED <<choices, votes, inflight>>
    /\ UNCHANGED wsvars

NextRoundTaskTwo(rid) ==
    /\ rid \in DOMAIN rounds
    /\ rounds[rid].nextPending > 0
    /\ schedule_next_round(rid, MaxRoundsTwo)
    /\ UNCHANGED <<choices, votes, inflight>>
    /\ UNCHANGED wsvars

\* A round is played faster than its deadlines and the next round begins
NextStale ==
    \/ \E g \in 1..MaxGames : StartRoundTwo(g)
    \/ \E u \in Users, rid \in 1..MaxRoundsTwo, card \in Cards :
           SubmitChoice(u, rid, card)
    \/ \E rid \in 1..MaxRoundsTwo : StartVoting(rid)
    \/ \E rid \in 1..MaxRoundsTwo : GetRoundResults(rid)
    \/ \E rid \in 1..MaxRoundsTwo : NextRoundTaskTwo(rid)
    \/ \E rid \in 1..MaxRoundsTwo : SelectionDeadline(rid)
    \/ \E rid \in 1..MaxRoundsTwo : VotingDeadline(rid)
    \/ \E rid \in 1..MaxRoundsTwo : SelectionTimeout(rid)
    \/ \E rid \in 1..MaxRoundsTwo : VotingTimeout(rid)

SpecStale == InitGame /\ [][NextStale]_vars

\* the game is in the given phase of the round rid
InPhaseOf(rid, phase) ==
    /\ games[rounds[rid].game].status = phase
    /\ games[rounds[rid].game].current_round = rounds[rid].number

\* the step is the run of the selection timer, of a voting timer, of round rid
SelectionTimerFired(rid) ==
    /\ rid \in DOMAIN rounds
    /\ rounds[rid].selTimer \in {"sleeping", "due"}
    /\ rounds'[rid].selTimer \in {"returned", "done"}

VotingTimerFired(rid) ==
    /\ rid \in DOMAIN rounds
    /\ rounds[rid].selTimer = rounds'[rid].selTimer
    /\ rounds'[rid].voteTimers = rounds[rid].voteTimers - 1

\* nothing but the timer itself changes
TimerNoOp ==
    /\ participants' = participants
    /\ games' = games
    /\ rooms' = rooms
    /\ rating' = rating
    /\ \A r \in DOMAIN rounds :
          /\ rounds'[r].voteTimers <= rounds[r].voteTimers
          /\ rounds'[r].finished = rounds[r].finished
          /\ rounds'[r].triggers = rounds[r].triggers
          /\ rounds'[r].auto_advanced = rounds[r].auto_advanced

\* C23: a deadline timer of round N that fires after round N has left its
\* phase, also when the game is in the same phase of a later round, records no
\* missed action, leaves the game status alone and neither starts voting for
\* nor finalises any round
C23_StaleTimerIsNoOp ==
    [][\A rid \in 1..MaxRoundsTwo :
          (\/ SelectionTimerFired(rid) /\ ~InPhaseOf(rid, "card_selection")
           \/ VotingTimerFired(rid) /\ ~InPhaseOf(rid, "voting"))
          => TimerNoOp]_vars

-----------------------------------------------------------------------------
(* Requests for an earlier round *)

\* The players' requests while the game goes from its first round to the next
NextCurrent ==
    \/ \E g \in 1..MaxGames : StartRoundTwo(g)
    \/ \E u \in Users, rid \in 1..MaxRoundsTwo, card \in Cards :
           SubmitChoice(u, rid, card)
    \/ \E rid \in 1..MaxRoundsTwo : StartVoting(rid)
    \/ \E u \in Users, rid \in 1..MaxRoundsTwo, c \in 1..MaxChoices :
           SubmitVote("vote", u, rid, c)
    \/ \E rid \in 1..MaxRoundsTwo : GetRoundResults(rid)
    \/ \E rid \in 1..MaxRoundsTwo : NextRoundTaskTwo(rid)

SpecCurrent == InitGame /\ [][NextCurrent]_vars

\* the step stores a choice, a vote, for round rid
ChoiceCreated(rid) ==
    /\ Len(choices') = Len(choices) + 1
    /\ choices'[Len(choices')].round = rid

VoteCreated(rid) ==
    /\ Len(votes') = Len(votes) + 1
    /\ votes'[Len(votes')].round = rid

\* the step is a start_voting request for round rid
VotingRequested(rid) ==
    /\ rounds'[rid].voteTimers = rounds[rid].voteTimers + 1
    /\ rounds'[rid].selTimer = rounds[rid].selTimer

\* C24: submit_card_choice, start_voting and submit_vote take effect only for
\* the current round of the game: a request that names a round whose number is
\* not current_round stores no choice and no vote and leaves the status alone
C24_OnlyCurrentRound ==
    [][\A rid \in 1..MaxRoundsTwo :
          (/\ rid \in DOMAIN rounds
           /\ rounds[rid].number # games[rounds[rid].game].current_round)
          => /\ ~ChoiceCreated(rid)
             /\ ~VoteCreated(rid)
             /\ ~VotingRequested(rid)]_vars

-----------------------------------------------------------------------------
(* Missed actions at the deadlines *)

\* the database after create_room by user 1, join, leave and join again by
\* user 2, join by user 3 and start_game: user 2 has a left and an active row
InitRejoined ==
    /\ rooms = [r \in Rooms |->
                  IF r = 1 THEN [status |-> "playing", creator |-> 1,
                                 max_players |-> MIN_PLAYERS]
                  ELSE NoRoom]
    /\ participants = <<NewParticipant(1, 1),
                        [NewParticipant(1, 2) EXCEPT !.status = "left"],
                        NewParticipant(1, 2),
                        NewParticipant(1, 3)>>
    /\ games = <<NewGame(1)>>
    /\ rounds = << >>
    /\ choices = << >>
    /\ votes = << >>
    /\ rating = [u \in Users |-> 0]
    /\ inflight = EmptyBag
    /\ NoConnections

\* The first round of a game with its deadlines and timers
NextMissed ==
    \/ \E g \in 1..MaxGames : StartRound(g)
    \/ \E u \in Users, rid \in 1..MaxRounds, card \in Cards :
           SubmitChoice(u, rid, card)
    \/ \E rid \in 1..MaxRounds : StartVoting(rid)
    \/ \E u \in Users, rid \in 1..MaxRounds, c \in 1..MaxChoices :
           SubmitVote("vote", u, rid, c)
    \/ \E u \in Users, r \in Rooms : LeaveRoom(u, r)
    \/ \E rid \in 1..MaxRounds : SelectionDeadline(rid)
    \/ \E rid \in 1..MaxRounds : VotingDeadline(rid)
    \/ \E rid \in 1..MaxRounds : SelectionTimeout(rid)
    \/ \E rid \in 1..MaxRounds : VotingTimeout(rid)

InitMissed == InitGame \/ InitRejoined

SpecMissed == InitMissed /\ [][NextMissed]_vars

\* every active row of the room whose user is not in done has one missed
\* action more after the step, and no other row has
OneMissedActionEach(r, done) ==
    \A i \in DOMAIN participants :
        participants'[i].missed =
            IF i \in ActiveRows(r) /\ participants[i].user \notin done
            THEN participants[i].missed + 1
            ELSE participants[i].missed

\* C25: when the selection timer fires while the game is in card_selection,
\* every active participant without a choice in the round gets exactly one
\* missed action; then the game is in voting if the round has at least 3
\* choices and is finished otherwise
C25_SelectionDeadlineFires ==
    [][\A rid \in 1..MaxRounds :
          (/\ SelectionTimerFired(rid)
           /\ games[rounds[rid].game].status = "card_selection")
          => /\ OneMissedActionEach(games[rounds[rid].game].room,
                    {choices[c].user : c \in ChoicesOfRound(rid)})
             /\ games'[rounds[rid].game].status =
                    IF Cardinality(ChoicesOfRound(rid)) >= MIN_CHOICES
                    THEN "voting" ELSE "finished"]_vars

\* C26: when a voting timer fires while the game is in voting, every active
\* participant without a vote in the round gets exactly one missed action, the
\* round's auto_advanced flag is set and the round is finalised with the votes
\* cast so far: the game is in round_results
C26_VotingDeadlineFires ==
    [][\A rid \in 1..MaxRounds :
          (/\ VotingTimerFired(rid)
           /\ games[rounds[rid].game].status = "voting")
          => /\ OneMissedActionEach(games[rounds[rid].game].room,
                    {votes[v].voter : v \in VotesOfRound(rid)})
             /\ rounds'[rid].auto_advanced
             /\ rounds'[rid].finished
             /\ votes' = votes
             /\ games'[rounds[rid].game].status = "round_results"]_vars

-----------------------------------------------------------------------------
(* The rounds of a whole game *)

\* the step is the run of a next-round task of round rid
NextRoundTaskRan(rid) ==
    /\ rid \in DOMAIN rounds
    /\ rounds'[rid].nextPending = rounds[rid].nextPending - 1

\* C27: after the results of round N the game ends if N >= 7 and round N + 1
\* starts otherwise; a game that is never short of players or choices has
\* played exactly seven rounds, numbered 1 to 7, when it finishes
C27_SevenRounds ==
    [][\A rid \in 1..MaxRoundsLong :
          NextRoundTaskRan(rid) =>
              LET g == rounds[rid].game
              IN  IF rounds[rid].number >= TOTAL_ROUNDS
                  THEN /\ games'[g].status = "finished"
                       /\ {rounds[x].number : x \in RoundsOf(g)} = 1..TOTAL_ROUNDS
                  ELSE /\ Len(rounds') = Len(rounds) + 1
                       /\ rounds'[Len(rounds')].game = g
                       /\ rounds'[Len(rounds')].number = rounds[rid].number + 1
                       /\ games'[g].status = "card_selection"]_vars

-----------------------------------------------------------------------------
(* The winner of a game *)

\* the step ends game g
GameEnded(g) ==
    /\ g \in DOMAIN games
    /\ games[g].status # "finished"
    /\ games'[g].status = "finished"

\* user u has a choice with the most votes of round rid, and at least one vote
WonRound(rid, u) ==
    \E c \in WinnerChoices(rid) \ {None} : choices[c].user = u /\ VoteCount(c) > 0

RoundsWon(g, u) == Cardinality({rid \in RoundsOf(g) : WonRound(rid, u)})

\* C28: end_game ranks the participants by the number of rounds they won; the
\* winner of the game is the top participant if that participant won at least
\* one round and stays unset otherwise; the winner gets +5 rating points
C28_WinnerWonARound ==
    [][\A g \in 1..MaxGames :
          GameEnded(g) =>
              LET w == games'[g].winner
              IN  /\ w # None =>
                         /\ RoundsWon(g, w) >= 1
                         /\ \A u \in Users : RoundsWon(g, w) >= RoundsWon(g, u)
                  /\ w = None => \A u \in Users : RoundsWon(g, u) = 0
                  /\ rating' = IF w # None
                               THEN [rating EXCEPT ![w] = @ + VICTORY_POINTS]
                               ELSE rating]_vars

\* Two rounds of a game with their timers, up to the end of the game
NextWinner ==
    \/ \E g \in 1..MaxGames : StartRoundTwo(g)
    \/ \E u \in Users, rid \in 1..MaxRoundsTwo, card \in Cards :
           SubmitChoice(u, rid, card)
    \/ \E rid \in 1..MaxRoundsTwo : StartVoting(rid)
    \/ \E u \in Users, rid \in 1..MaxRoundsTwo, c \in 1..MaxChoices :
           SubmitVote("vote", u, rid, c)
    \/ \E rid \in 1..MaxRoundsTwo : SelectionTimeout(rid)
    \/ \E rid \in 1..MaxRoundsTwo : VotingTimeout(rid)
    \/ \E rid \in 1..MaxRoundsTwo : NextRoundTaskTwo(rid)
    \/ \E g \in 1..MaxGames : EndGame(g)

SpecWinner == InitGame /\ [][NextWinner]_vars

\* after the step every row of user u in room r is left
ExcludedAfter(r, u) ==
    /\ ParticipantRows(r, u) # {}
    /\ \A i \in ParticipantRows(r, u) : participants'[i].status = "left"

\* C29: a participant who was excluded during the game (membership left) takes
\* no part in the winner computation of end_game: they are neither in the
\* leaderboard nor the winner, even if their earlier choices received votes
C29_ExcludedNotRanked ==
    [][\A g \in 1..MaxGames :
          GameEnded(g) =>
              \A u \in Users :
                  ExcludedAfter(games[g].room, u) =>
                      /\ u \notin Leaderboard(g)
                      /\ games'[g].winner # u]_vars

-----------------------------------------------------------------------------
(* Exclusion after disconnects and missed actions *)

\* A game whose players disconnect and miss the deadlines of two rounds
NextExclude ==
    \/ \E g \in 1..MaxGames : StartRoundTwo(g)
    \/ \E u \in Users, rid \in 1..MaxRoundsTwo, card \in Cards :
           SubmitChoice(u, rid, card)
    \/ \E rid \in 1..MaxRoundsTwo : SelectionTimeout(rid)
    \/ \E rid \in 1..MaxRoundsTwo : VotingTimeout(rid)
    \/ \E u \in Users, r \in Rooms : MarkPlayerDisconnected(u, r)

SpecExclude == InitMissed /\ [][NextExclude]_vars

-----------------------------------------------------------------------------
(* start_round with too few players *)

\* the answers 500 to POST /games/{game_id}/rounds not yet received
RoundErrorsInFlight == RequestsInFlight("round_error")

\* POST /games/{game_id}/rounds when fewer than 3 players are left: start_round
\* runs the cleanup and end_game and returns end_game's result, which is not a
\* GameRoundResponse; the response validation raises and the transaction of the
\* request is discarded
StartRoundFailed(g) ==
    /\ g \in DOMAIN games
    /\ CanStartRound(g)
    /\ ~HasPlayersForRound(g)
    /\ RoundErrorsInFlight < MaxErrors
    /\ \E w \in FirstPlaces(g) :
         LET ended == [games EXCEPT ![g].status = "finished", ![g].winner = w]
         IN  games' = request_outcome(TRUE, games, ended)
    /\ participants' = request_outcome(TRUE, participants,
                                       cleanup_inactive_players(games[g].room))
    /\ rooms' = request_outcome(TRUE, rooms,
                    [rooms EXCEPT ![games[g].room].status = "finished"])
    /\ inflight' = inflight (+)
           SetToBag({Request("round_error", None, g, "response_validation")})
    /\ UNCHANGED <<rounds, choices, votes, rating>>
    /\ UNCHANGED wsvars

\* the client receives the answer 500
ReceiveRoundError(g) ==
    /\ InFlight(Request("round_error", None, g, "response_validation"))
    /\ inflight' = inflight (-)
           SetToBag({Request("round_error", None, g, "response_validation")})
    /\ UNCHANGED <<rooms, participants, games, rounds, choices, votes, rating>>
    /\ UNCHANGED wsvars

\* A game whose players leave and disconnect between start_round requests
NextStartRound ==
    \/ \E u \in Users, r \in Rooms : MarkPlayerDisconnected(u, r)
    \/ \E u \in Users, r \in Rooms : LeaveRoom(u, r)
    \/ \E g \in 1..MaxGames : StartRound(g)
    \/ \E g \in 1..MaxGames : StartRoundFailed(g)
    \/ \E g \in 1..MaxGames : ReceiveRoundError(g)
    \/ \E rid \in 1..MaxRounds : GetRoundResults(rid)
    \/ \E rid \in 1..MaxRounds : NextRoundTask(rid)

SpecStartRound == InitGame /\ [][NextStartRound]_vars

\* the step is a start_round of game g that passed its status check: it
\* changed the game or the rounds, or its request was answered
StartRoundStep(g) ==
    /\ CanStartRound(g)
    /\ \/ games'[g] # games[g] /\ games'[g].status # "round_results"
       \/ Len(rounds') > Len(rounds)
       \/ CopiesIn(Request("round_error", None, g, "response_validation"), inflight')
             > CopiesIn(Request("round_error", None, g, "response_validation"), inflight)

\* C31: start_round creates no round when fewer than 3 active participants are
\* left after the cleanup of the excluded players; the game is ended instead
\* (game and room finished) and current_round is not incremented
C31_NoRoundWithoutPlayers ==
    [][\A g \in DOMAIN games :
          (StartRoundStep(g) /\ ~HasPlayersForRound(g))
          => /\ Len(rounds') = Len(rounds)
             /\ games'[g].status = "finished"
             /\ rooms'[games[g].room].status = "finished"
             /\ games'[g].current_round = games[g].current_round]_vars

-----------------------------------------------------------------------------
(* The deadlines of a round *)

\* C32: the round with number n in 1..7 created by start_round has the
\* selection duration 50, 45, 40, 35, 30, 30, 30 seconds for n = 1, ..., 7, its
\* selection_deadline is started_at plus that duration, and its voting_deadline
\* is selection_deadline plus 180 seconds
C32_DurationSchedule ==
    \A rid \in DOMAIN rounds :
        rounds[rid].number \in 1..TOTAL_ROUNDS =>
            /\ rounds[rid].duration_seconds =
                   <<50, 45, 40, 35, 30, 30, 30>>[rounds[rid].number]
            /\ rounds[rid].selection_deadline = rounds[rid].duration_seconds
            /\ rounds[rid].voting_deadline = rounds[rid].selection_deadline + 180

-----------------------------------------------------------------------------
(* Rooms with requests that overlap *)

\* create_room's check of the creator's rooms
CanCreateRoom(u) ==
    ~ \E r \in Rooms : rooms[r].creator = u /\ rooms[r].status \in {"waiting", "playing"}

\* create_room up to its first await after the check: the request has read
\* that its user owns no waiting or playing room
CreateRoomCheck(u, mp) ==
    /\ CanCreateRoom(u)
    /\ BagCardinality(inflight) < MaxInflight
    /\ inflight' = inflight (+) SetToBag({Request("create_room", u, None, mp)})
    /\ UNCHANGED <<rooms, participants, games, rounds, choices, votes, rating>>
    /\ UNCHANGED wsvars

\* create_room from the insert of the room to the commit of the request
CreateRoomInsert(u, mp) ==
    /\ InFlight(Request("create_room", u, None, mp))
    /\ inflight' = inflight (-) SetToBag({Request("create_room", u, None, mp)})
    /\ \E r \in Rooms :
        /\ ~ RoomExists(r)
        /\ \A q \in Rooms : q < r => RoomExists(q)
        /\ Len(participants) < MaxParticipants
        /\ rooms' = [rooms EXCEPT ![r] =
                        [status |-> "waiting", creator |-> u, max_players |-> mp]]
        /\ participants' = Append(participants, NewParticipant(r, u))
    /\ UNCHANGED <<games, rounds, choices, votes, rating>>
    /\ UNCHANGED wsvars

\* the checks of join_room and _join_room_internal: the room is waiting, the
\* user has no active row in it, and it has a free place
CanJoinRoom(u, r) ==
    /\ RoomExists(r)
    /\ rooms[r].status = "waiting"
    /\ ActiveRowsOf(r, u) = {}
    /\ _get_active_players_count(r) < rooms[r].max_players

\* join_room / join_room_by_code up to the insert: the checks have passed
JoinRoomCheck(u, r) ==
    /\ CanJoinRoom(u, r)
    /\ BagCardinality(inflight) < MaxInflight
    /\ inflight' = inflight (+) SetToBag({Request("join_room", u, r, None)})
    /\ UNCHANGED <<rooms, participants, games, rounds, choices, votes, rating>>
    /\ UNCHANGED wsvars

\* _join_room_internal from the insert of the participant to the commit
JoinRoomInsert(u, r) ==
    /\ InFlight(Request("join_room", u, r, None))
    /\ inflight' = inflight (-) SetToBag({Request("join_room", u, r, None)})
    /\ Len(participants) < MaxParticipants
    /\ participants' = Append(participants, NewParticipant(r, u))
    /\ UNCHANGED <<rooms, games, rounds, choices, votes, rating>>
    /\ UNCHANGED wsvars

\* Rooms with create and join requests that overlap each other and the other
\* requests
NextJoin ==
    \/ \E u \in Users, mp \in MaxPlayersChoices : CreateRoomCheck(u, mp)
    \/ \E u \in Users, mp \in MaxPlayersChoices : CreateRoomInsert(u, mp)
    \/ \E u \in Users, r \in Rooms : JoinRoomCheck(u, r)
    \/ \E u \in Users, r \in Rooms : JoinRoomInsert(u, r)
    \/ \E u \in Users, r \in Rooms : LeaveRoom(u, r)
    \/ \E u \in Users, r \in Rooms : StartGame(u, r)

SpecJoin == Init /\ [][NextJoin]_vars

\* C33: a room holds at most one active participant record per (room, user),
\* under any interleaving of join_room and join_room_by_code calls
C33_OneActiveRowPerUser ==
    \A r \in Rooms, u \in Users : Cardinality(ActiveRowsOf(r, u)) <= 1

\* C34: the number of active participants of a room never exceeds the room's
\* max_players, under any interleaving of joins by id and by code, and no
\* participant is added to a room whose status is not waiting
C34_CapacityAndWaiting ==
    [][/\ \A r \in Rooms :
            rooms'[r].status # "none" =>
                Cardinality({i \in DOMAIN participants' :
                                /\ participants'[i].room = r
                                /\ participants'[i].status = "active"})
                    <= rooms'[r].max_players
       /\ \A i \in DOMAIN participants' \ DOMAIN participants :
            rooms'[participants'[i].room].status = "waiting"]_vars

\* the rooms in waiting or playing that user u created
OwnedRooms(u) ==
    {r \in Rooms : rooms[r].creator = u /\ rooms[r].status \in {"waiting", "playing"}}

\* C35: a user is the creator of at most one room in waiting or playing, also
\* when the user's create_room (or quick_match) calls overlap; a create_room by
\* a user who owns such a room creates no room and no participant record
C35_OneOwnedRoom ==
    \A u \in Users : Cardinality(OwnedRooms(u)) <= 1

\* C40: a user is an active participant of at most one room in waiting or
\* playing, under any sequence of create_room, join_room, join_room_by_code,
\* quick_match and leave_room, so get_user_current_room has at most one
\* candidate
C40_OneCurrentRoom ==
    \A u \in Users : Cardinality(CurrentRooms(u)) <= 1

----------------------------------------------------------------------------
(* The bus subscriptions of the instance *)

\* the join_room action of a socket (_handle_join_room): nothing is done when
\* the registry holds the user in this very room; room_service.join_room adds
\* the participant in the transaction of the socket's session, which is not
\* committed, so the tables the other sessions read stay as they are; the
\* registry takes the user into the room when it held the user in no room.
\* The handler makes no call of subscribe_to_room_events.
WsJoinRoom(s, r) ==
    /\ s \in DOMAIN sockets
    /\ sockets[s].state = "open"
    /\ LET u == sockets[s].user
       IN  /\ user_room[u] # r
           /\ CanJoinRoom(u, r)
           /\ IF user_room[u] = None
              THEN /\ room_users' = sync_room_users(u, r)
                   /\ user_room' = [user_room EXCEPT ![u] = r]
              ELSE UNCHANGED <<room_users, user_room>>
    /\ UNCHANGED <<sockets, active_connections, redis_event_handlers>>
    /\ UNCHANGED <<rooms, participants, games, rounds, choices, votes, rating, inflight>>
    /\ UNCHANGED game_state_cache

\* Rooms in waiting and the sockets of the users: a user enters the registry
\* of a room by the connect of its creator or by a join_room action.
NextBus ==
    \/ \E u \in Users, mp \in MaxPlayersChoices : CreateRoom(u, mp)
    \/ \E u \in Users, hint \in Hints : ConnectAccept(u, hint)
    \/ \E s \in 1..MaxSockets : ConnectRegister(s)
    \/ \E s \in 1..MaxSockets, r \in Rooms : WsJoinRoom(s, r)
    \/ \E s \in 1..MaxSockets : ClientClose(s)
    \/ \E s \in 1..MaxSockets : HandlerTeardown(s)

SpecBus == Init /\ [][NextBus]_vars

\* C36: whenever the registry of the instance holds a local client in a room,
\* the instance is subscribed to the bus events of that room, whether the
\* client entered the room by the room_id of the URL, by the synchronisation
\* with the database at connect or by a later join_room action.
C36_SubscribedWhereClients ==
    \A r \in Rooms : room_users[r] # {} => r \in redis_event_handlers

----------------------------------------------------------------------------
(* end_game called again *)

\* C37: end_game takes effect at most once per game: when it is invoked again
\* on a game that is already finished (by the end endpoint, a deadline timer
\* or _schedule_next_round), the recorded winner stays and the victory points
\* are not granted again.
C37_EndGameOnce ==
    [][\A g \in DOMAIN games :
          games[g].status = "finished" =>
              /\ games'[g].winner = games[g].winner
              /\ \A u \in Users : rating'[u] < rating[u] + VICTORY_POINTS]_vars

----------------------------------------------------------------------------
(* The cache of game states *)

\* get_game_service (core/dependencies.py) builds a GameService with the bus
\* client: get_game_state of such a service answers from the key
\* game_state:{game_id} when the key is set, and otherwise reads the database
\* and sets the key for 5 minutes; its state-changing operations delete the key.

\* status and current_round of the state get_game_state assembles from the
\* database
GameStateOf(g) ==
    [status |-> games[g].status, current_round |-> games[g].current_round]

\* redis_client.delete(f"game_state:{game_id}")
delete_game_state(g) == [game_state_cache EXCEPT ![g] = NoState]

\* get_game_state with no state in the cache, up to the end of its reads of the
\* database
GetGameStateRead(g) ==
    /\ g \in DOMAIN games
    /\ game_state_cache[g] = NoState
    /\ BagCardinality(inflight) < MaxInflight
    /\ inflight' = inflight (+) SetToBag({Request("get_game_state", None, g, GameStateOf(g))})
    /\ UNCHANGED <<rooms, participants, games, rounds, choices, votes, rating>>
    /\ UNCHANGED wsvars

\* get_game_state from cache_game_state on: the state it has read is stored
\* and returned
GetGameStateStore(g) ==
    /\ \E req \in BagToSet(inflight) :
         /\ req.op = "get_game_state"
         /\ req.target = g
         /\ inflight' = inflight (-) SetToBag({req})
         /\ game_state_cache' = [game_state_cache EXCEPT ![g] = req.arg]
    /\ UNCHANGED <<rooms, participants, games, rounds, choices, votes, rating>>
    /\ UNCHANGED <<sockets, active_connections, room_users, user_room, redis_event_handlers>>

\* get_game_state with a state in the cache: the cached state is the answer
GetGameStateCached(g) ==
    /\ g \in DOMAIN games
    /\ game_state_cache[g] # NoState
    /\ RequestsInFlight("game_state") < MaxErrors
    /\ inflight' = inflight (+) SetToBag({Request("game_state", None, g, game_state_cache[g])})
    /\ UNCHANGED <<rooms, participants, games, rounds, choices, votes, rating>>
    /\ UNCHANGED wsvars

\* the caller takes the answer
ReceiveGameState(g) ==
    /\ \E req \in BagToSet(inflight) :
         /\ req.op = "game_state"
         /\ req.target = g
         /\ inflight' = inflight (-) SetToBag({req})
    /\ UNCHANGED <<rooms, participants, games, rounds, choices, votes, rating>>
    /\ UNCHANGED wsvars

\* the key expires 300 seconds after it was set
GameStateExpires(g) ==
    /\ game_state_cache[g] # NoState
    /\ game_state_cache' = delete_game_state(g)
    /\ UNCHANGED <<rooms, participants, games, rounds, choices, votes, rating, inflight>>
    /\ UNCHANGED <<sockets, active_connections, room_users, user_room, redis_event_handlers>>

\* start_round of a service with the cache: the round is created and the key
\* is deleted
StartRoundCached(g) ==
    /\ g \in DOMAIN games
    /\ CanStartRound(g)
    /\ HasPlayersForRound(g)
    /\ start_round(g, rounds, MaxRoundsTwo)
    /\ game_state_cache' = delete_game_state(g)
    /\ UNCHANGED <<choices, votes, inflight>>
    /\ UNCHANGED <<sockets, active_connections, room_users, user_room, redis_event_handlers>>

\* calculate_round_results of a service with the cache
RoundResultsCached(rid) ==
    /\ rid \in DOMAIN rounds
    /\ calculate_round_results(rid, rounds)
    /\ game_state_cache' = delete_game_state(rounds[rid].game)
    /\ UNCHANGED <<rooms, participants, choices, votes, inflight>>
    /\ UNCHANGED <<sockets, active_connections, room_users, user_room, redis_event_handlers>>

\* end_game of a service with the cache
EndGameCached(g) ==
    /\ g \in DOMAIN games
    /\ end_game(g)
    /\ game_state_cache' = delete_game_state(g)
    /\ UNCHANGED <<participants, rounds, choices, votes, inflight>>
    /\ UNCHANGED <<sockets, active_connections, room_users, user_room, redis_event_handlers>>

\* One game whose state is asked for while its rounds start and end.
NextCache ==
    \/ \E g \in 1..MaxGames : GetGameStateRead(g)
    \/ \E g \in 1..MaxGames : GetGameStateStore(g)
    \/ \E g \in 1..MaxGames : GetGameStateCached(g)
    \/ \E g \in 1..MaxGames : ReceiveGameState(g)
    \/ \E g \in 1..MaxGames : GameStateExpires(g)
    \/ \E g \in 1..MaxGames : StartRoundCached(g)
    \/ \E rid \in 1..MaxRoundsTwo : RoundResultsCached(rid)
    \/ \E g \in 1..MaxGames : EndGameCached(g)

SpecCache == InitGame /\ [][NextCache]_vars

\* C38: the cached game state never stays stale: however get_game_state and a
\* state-changing operation interleave, a get_game_state that answers from
\* the cache after both have completed returns the status and current_round
\* of the database.
C38_CacheNeverStale ==
    [][\A req \in BagToSet(inflight') :
          (req.op = "game_state" /\ CopiesIn(req, inflight') > CopiesIn(req, inflight))
              => req.arg = GameStateOf(req.target)]_vars

----------------------------------------------------------------------------
(* The indexes of the ConnectionManager *)

\* connect() awaits the query of get_user_current_room between the statement
\* that stores the socket in active_connections and _sync_join_room: the two
\* halves of ConnectRegister, with other handlers running in between.

\* connect() up to the query: the socket is stored
ConnectStore(s) ==
    /\ s \in DOMAIN sockets
    /\ sockets[s].state = "accepted"
    /\ active_connections' = [active_connections EXCEPT ![sockets[s].user] = s]
    /\ sockets' = [sockets EXCEPT ![s].state = "stored"]
    /\ UNCHANGED <<room_users, user_room, redis_event_handlers, game_state_cache>>
    /\ UNCHANGED <<rooms, participants, games, rounds, choices, votes, rating, inflight>>

\* connect() from the answer of the query on: _sync_join_room with the user's
\* current room, connection_established (sent if active_connections still has
\* the user), then the subscription to the room of the URL
ConnectSync(s) ==
    /\ s \in DOMAIN sockets
    /\ sockets[s].state = "stored"
    /\ LET u == sockets[s].user
       IN  \E r \in room_of_connection(u, sockets[s].hint) :
             /\ sockets' = [sockets EXCEPT ![s].state = "open", ![s].room_id = r]
             /\ IF r # None
                THEN /\ room_users' = sync_room_users(u, r)
                     /\ user_room' = [user_room EXCEPT ![u] = r]
                ELSE UNCHANGED <<room_users, user_room>>
    /\ redis_event_handlers' = IF sockets[s].hint # None
                               THEN subscribe_to_room_events(sockets[s].hint)
                               ELSE redis_event_handlers
    /\ UNCHANGED <<active_connections, game_state_cache>>
    /\ UNCHANGED <<rooms, participants, games, rounds, choices, votes, rating, inflight>>

\* websocket_endpoint up to the registration, for a user none of whose sockets
\* is inside connect()
ConnectAcceptInTurn(u, hint) ==
    /\ \A s \in DOMAIN sockets :
          sockets[s].user = u => sockets[s].state \in {"open", "closed", "done"}
    /\ ConnectAccept(u, hint)

\* The sockets of the players of a room that is playing; a user connects again
\* when the connect of the user's previous socket has returned.  game_users
\* and user_game stay empty: join_game is called by _handle_start_game only,
\* which fails on an unbound name before the call.
NextRegistry ==
    \/ \E u \in Users, r \in Rooms : LeaveRoom(u, r)
    \/ \E u \in Users, hint \in Hints : ConnectAcceptInTurn(u, hint)
    \/ \E s \in 1..MaxSockets : ConnectStore(s)
    \/ \E s \in 1..MaxSockets : ConnectSync(s)
    \/ \E s \in 1..MaxSockets : ClientClose(s)
    \/ \E s \in 1..MaxSockets : HandlerTeardown(s)

SpecRegistry == InitGame /\ [][NextRegistry]_vars

\* C39: in every state of the ConnectionManager the two directions of its
\* room index agree (user_room[u] = r exactly when u is in room_users[r], so
\* a user is in at most one room set), and a user who has no entry in
\* active_connections is in no room set.
C39_IndexesAgree ==
    \A u \in Users :
        /\ \A r \in Rooms : (user_room[u] = r) <=> (u \in room_users[r])
        /\ active_connections[u] = None => \A r \in Rooms : u \notin room_users[r]

====
